---- MODULE Spec2Model ----
(***************************************************************************)
(* MuseWave / IndieWave: the JSON-file storage engine (server/storage.ts)  *)
(* and the local REST router (registerRoutes) that drives it.              *)
(*                                                                         *)
(* Every collection file is a sequence of records.  A record is a function *)
(* from field names to values; an optional field that is undefined is      *)
(* absent from the record's DOMAIN, as it is in the JSON file.             *)
(* Strings that the code inspects character by character (search) are      *)
(* tuples of one-character strings.  Timestamps are integers (days).       *)
(* A request handler runs to completion before the next one starts: all    *)
(* file operations are synchronous and every await resolves in the         *)
(* microtask queue.                                                        *)
(***************************************************************************)
EXTENDS Integers, Sequences, FiniteSets, TLC

VARIABLES
  users,        \* db-data/users.json
  tracks,       \* db-data/tracks.json
  likes,        \* db-data/likes.json
  downloads,    \* db-data/downloads.json
  plays,        \* db-data/plays.json
  follows,      \* db-data/follows.json
  userStats,    \* db-data/user-stats.json
  trackStats,   \* db-data/track-stats.json
  searchIndex,  \* db-data/search-index.json
  nextId,       \* per collection, the next fresh id randomUUID() hands out
  now,          \* the wall clock, in days
  last,         \* the most recent request and its response
  prev,         \* the request before last (history)
  wire,         \* client: a body on its way out (snake_case) and back in
  store,        \* client: localStorage
  auth,         \* client: AuthProvider state (user, isAuthenticated)
  call,         \* client: the apiRequestJson / apiRequestFormData call under way
  player,       \* client: PlayerProvider and PlayerBar state
  unreadable,   \* the collection files that are missing or hold no JSON
  writers       \* server processes at work in the same db-data directory

vars == <<users, tracks, likes, downloads, plays, follows, userStats,
          trackStats, searchIndex, nextId, now, last, prev, wire,
          store, auth, call, player, unreadable, writers>>

db == <<users, tracks, likes, downloads, plays, follows, userStats,
        trackStats, searchIndex>>

\* the state of the files as the file system sees them, and of the server
\* processes that are in the middle of a storage method
disk == <<unreadable, writers>>

\* the state of the server process
server == <<db, nextId, now, last, prev, disk>>

\* the state of the browser
client == <<wire, store, auth, call, player>>

\* ------------------------------------------------------------------------
\* Bounds of the model
\* ------------------------------------------------------------------------
MaxUsers == 2
MaxTracks == 3
MaxLikes == 2
MaxPlays == 3
MaxFollows == 2
MaxDownloads == 1
LikesMaxTracks == 2

\* ------------------------------------------------------------------------
\* Records, sequences, strings
\* ------------------------------------------------------------------------

\* { ...a, ...b }
Merge(a, b) ==
  [f \in (DOMAIN a) \cup (DOMAIN b) |-> IF f \in DOMAIN b THEN b[f] ELSE a[f]]

\* const { f, ...rest } = r
Without(r, f) == [g \in (DOMAIN r) \ {f} |-> r[g]]

Has(r, f) == f \in DOMAIN r

Range(s) == {s[i] : i \in 1..Len(s)}

\* Array.prototype.findIndex, 1-based; 0 when nothing matches
FindIndex(s, Test(_)) ==
  IF \E i \in 1..Len(s) : Test(s[i])
  THEN CHOOSE i \in 1..Len(s) : Test(s[i]) /\ \A j \in 1..(i - 1) : ~Test(s[j])
  ELSE 0

Max(a, b) == IF a >= b THEN a ELSE b

Min(a, b) == IF a <= b THEN a ELSE b

\* Array.prototype.slice(from, to): 0-based from, exclusive to, a negative
\* index counts from the end
Slice(s, from, to) ==
  LET lo == IF from < 0 THEN Max(Len(s) + from, 0) ELSE Min(from, Len(s))
      hi == IF to < 0 THEN Max(Len(s) + to, 0) ELSE Min(to, Len(s))
  IN IF hi <= lo THEN <<>> ELSE SubSeq(s, lo + 1, hi)

Lowers == <<"a", "b", "c", "d", "e", "f", "g", "h", "i", "j", "k", "l", "m",
           "n", "o", "p", "q", "r", "s", "t", "u", "v", "w", "x", "y", "z">>

Uppers == <<"A", "B", "C", "D", "E", "F", "G", "H", "I", "J", "K", "L", "M",
           "N", "O", "P", "Q", "R", "S", "T", "U", "V", "W", "X", "Y", "Z">>

\* String.prototype.toLowerCase on one character
LowerChar(c) ==
  IF \E i \in DOMAIN Uppers : Uppers[i] = c
  THEN Lowers[CHOOSE i \in DOMAIN Uppers : Uppers[i] = c]
  ELSE c

\* String.prototype.toUpperCase on one character
UpperChar(c) ==
  IF \E i \in DOMAIN Lowers : Lowers[i] = c
  THEN Uppers[CHOOSE i \in DOMAIN Lowers : Lowers[i] = c]
  ELSE c

ToLowerCase(s) == [i \in 1..Len(s) |-> LowerChar(s[i])]

\* String.prototype.includes
Includes(s, q) ==
  \E i \in 0..(Len(s) - Len(q)) : \A j \in 1..Len(q) : s[i + j] = q[j]

\* String.prototype.trim
RECURSIVE TrimLeft(_)
TrimLeft(s) == IF s # <<>> /\ Head(s) = " " THEN TrimLeft(Tail(s)) ELSE s

RECURSIVE TrimRight(_)
TrimRight(s) ==
  IF s # <<>> /\ s[Len(s)] = " " THEN TrimRight(SubSeq(s, 1, Len(s) - 1)) ELSE s

Trim(s) == TrimRight(TrimLeft(s))

\* Array.prototype.join(" ")
RECURSIVE JoinSpace(_)
JoinSpace(ss) ==
  IF ss = <<>> THEN <<>>
  ELSE IF Len(ss) = 1 THEN ss[1]
  ELSE ss[1] \o <<" ">> \o JoinSpace(Tail(ss))

\* ------------------------------------------------------------------------
\* Storage engine: users
\* ------------------------------------------------------------------------
ThirtyDays == 30

RECURSIVE SumField(_, _)
SumField(s, f) == IF s = <<>> THEN 0 ELSE Head(s)[f] + SumField(Tail(s), f)

getUser(us, id) ==
  LET i == FindIndex(us, LAMBDA u : u.id = id)
  IN IF i = 0 THEN <<>> ELSE <<us[i]>>

getUserByUsernameMissed(us, username) == <<>>

getUserByUsername(us, username) ==
  LET i == FindIndex(us, LAMBDA u : u.username = username)
  IN IF i = 0 THEN <<>> ELSE <<us[i]>>

getUserByEmail(us, email) ==
  LET i == FindIndex(us, LAMBDA u : u.email = email)
  IN IF i = 0 THEN <<>> ELSE <<us[i]>>

listUsers(us, limit, offset) == Slice(us, offset, offset + limit)

getTracksByUser(ts, userId) == SelectSeq(ts, LAMBDA t : t.userId = userId)

getFollowers(fs, userId) == SelectSeq(fs, LAMBDA f : f.followingId = userId)

getFollowing(fs, userId) == SelectSeq(fs, LAMBDA f : f.followerId = userId)

\* the plays that count towards the monthly listeners of the owner of ts
recentPlays(ps, ts, clock) ==
  SelectSeq(ps, LAMBDA p :
    /\ \E i \in 1..Len(ts) : ts[i].id = p.trackId
    /\ p.createdAt >= clock - ThirtyDays)

\* new Set(plays.map(p => p.userId).filter(Boolean))
uniqueListeners(ps) == {ps[i].userId : i \in {j \in 1..Len(ps) : Has(ps[j], "userId")}}

computeUserStats(userId, ts, fs, ps, clock) ==
  LET mine == getTracksByUser(ts, userId)
  IN [userId |-> userId,
      totalTracks |-> Len(mine),
      totalPlays |-> SumField(mine, "plays"),
      totalLikes |-> SumField(mine, "likes"),
      totalDownloads |-> SumField(mine, "downloads"),
      totalFollowers |-> Len(getFollowers(fs, userId)),
      totalFollowing |-> Len(getFollowing(fs, userId)),
      monthlyListeners |-> Cardinality(uniqueListeners(recentPlays(ps, mine, clock))),
      updatedAt |-> clock]

\* the user-stats file after updateUserStats(userId)
updateUserStats(allStats, userId, ts, fs, ps, clock) ==
  LET stats == computeUserStats(userId, ts, fs, ps, clock)
      index == FindIndex(allStats, LAMBDA s : s.userId = userId)
  IN IF index > 0 THEN [allStats EXCEPT ![index] = stats]
     ELSE Append(allStats, stats)

\* what getUserStats(userId) returns: the cached entry when there is one
getUserStats(allStats, userId, ts, fs, ps, clock) ==
  LET index == FindIndex(allStats, LAMBDA s : s.userId = userId)
  IN IF index > 0 THEN allStats[index]
     ELSE computeUserStats(userId, ts, fs, ps, clock)

newUser(createUser, id, clock) ==
  Merge(createUser,
        [id |-> id, verified |-> FALSE, createdAt |-> clock, updatedAt |-> clock])

updatedUser(u, updates, id, clock) ==
  Merge(Merge(u, updates), [id |-> id, updatedAt |-> clock])

\* ------------------------------------------------------------------------
\* Storage engine: tracks
\* ------------------------------------------------------------------------
DefaultLimit == 50

WithPublishedAt(t, defined, at) ==
  IF defined THEN Merge(Without(t, "publishedAt"), [publishedAt |-> at])
  ELSE Without(t, "publishedAt")

newTrack(createTrack, id, clock) ==
  WithPublishedAt(
    Merge(createTrack,
          [id |-> id, plays |-> 0, likes |-> 0, downloads |-> 0, shares |-> 0,
           createdAt |-> clock, updatedAt |-> clock]),
    createTrack.published, clock)

\* tracks[index] after updateTrack(id, updates)
\* the transition to published goes unnoticed: publishedAt keeps its old value
updatedTrackNoStamp(t, updates, id, clock) ==
  WithPublishedAt(Merge(Merge(t, updates), [id |-> id, updatedAt |-> clock]),
                  Has(t, "publishedAt"),
                  IF Has(t, "publishedAt") THEN t.publishedAt ELSE 0)

\* publishedAt taken from the request body, the override forgotten
updatedTrackBodyWins(t, updates, id, clock) ==
  Merge(Merge(t, updates), [id |-> id, updatedAt |-> clock])

updatedTrack(t, updates, id, clock) ==
  LET wasPublished == t.published
      nowPublished == IF Has(updates, "published") THEN updates.published
                      ELSE wasPublished
      merged == Merge(Merge(t, updates), [id |-> id, updatedAt |-> clock])
  IN IF nowPublished /\ ~wasPublished
     THEN WithPublishedAt(merged, TRUE, clock)
     ELSE WithPublishedAt(merged, Has(t, "publishedAt"),
                          IF Has(t, "publishedAt") THEN t.publishedAt ELSE 0)

getTrack(ts, id) ==
  LET i == FindIndex(ts, LAMBDA t : t.id = id)
  IN IF i = 0 THEN <<>> ELSE <<ts[i]>>

compareTracksAscending(a, b, sortBy, sortOrder) == a[sortBy] - b[sortBy]

\* the comparator handed to Array.prototype.sort; createdAt strings compare
\* by localeCompare, which orders ISO timestamps as their instants
compareTracks(a, b, sortBy, sortOrder) ==
  IF sortOrder = "asc" THEN a[sortBy] - b[sortBy] ELSE b[sortBy] - a[sortBy]

\* Array.prototype.sort is stable: insertion from the left keeps equal
\* elements in their original order
RECURSIVE InsertSorted(_, _, _, _)
InsertSorted(sorted, x, sortBy, sortOrder) ==
  IF sorted = <<>> THEN <<x>>
  ELSE IF compareTracks(sorted[Len(sorted)], x, sortBy, sortOrder) <= 0
       THEN Append(sorted, x)
       ELSE Append(InsertSorted(SubSeq(sorted, 1, Len(sorted) - 1), x,
                                sortBy, sortOrder),
                   sorted[Len(sorted)])

RECURSIVE SortTracks(_, _, _)
SortTracks(ts, sortBy, sortOrder) ==
  IF ts = <<>> THEN <<>>
  ELSE InsertSorted(SortTracks(SubSeq(ts, 1, Len(ts) - 1), sortBy, sortOrder),
                    ts[Len(ts)], sortBy, sortOrder)

matchesFiltersButPublished(t, filters) ==
  /\ Has(filters, "userId") => t.userId = filters.userId
  /\ Has(filters, "genre") => ToLowerCase(t.genre) = ToLowerCase(filters.genre)

matchesFilters(t, filters) ==
  /\ Has(filters, "userId") => t.userId = filters.userId
  /\ Has(filters, "genre") => ToLowerCase(t.genre) = ToLowerCase(filters.genre)
  /\ Has(filters, "mood") =>
       Has(t, "mood") /\ ToLowerCase(t.mood) = ToLowerCase(filters.mood)
  /\ (Has(filters, "tags") /\ Len(filters.tags) > 0) =>
       \E i \in 1..Len(filters.tags) : filters.tags[i] \in Range(t.tags)
  /\ Has(filters, "published") => t.published = filters.published

listTracks(ts, filters) ==
  LET filtered == SelectSeq(ts, LAMBDA t : matchesFilters(t, filters))
      sortBy == IF Has(filters, "sortBy") THEN filters.sortBy ELSE "createdAt"
      sortOrder == IF Has(filters, "sortOrder") THEN filters.sortOrder ELSE "desc"
      limit == IF Has(filters, "limit") /\ filters.limit # 0 THEN filters.limit
               ELSE DefaultLimit
      offset == IF Has(filters, "offset") THEN filters.offset ELSE 0
  IN Slice(SortTracks(filtered, sortBy, sortOrder), offset, offset + limit)

bumpCounter(ts, trackId, field, delta, clock) ==
  LET index == FindIndex(ts, LAMBDA t : t.id = trackId)
  IN IF index = 0 THEN ts
     ELSE [ts EXCEPT ![index] =
             Merge(@, [updatedAt |-> clock] @@ (field :> @[field] + delta))]

incrementTrackPlays(ts, trackId, clock) == bumpCounter(ts, trackId, "plays", 1, clock)

incrementTrackLikes(ts, trackId, clock) == bumpCounter(ts, trackId, "likes", 1, clock)

incrementTrackDownloads(ts, trackId, clock) ==
  bumpCounter(ts, trackId, "downloads", 1, clock)

decrementTrackLikesLost(ts, trackId, clock) == ts

decrementTrackLikes(ts, trackId, clock) ==
  LET index == FindIndex(ts, LAMBDA t : t.id = trackId)
  IN IF index = 0 THEN ts
     ELSE [ts EXCEPT ![index] =
             Merge(@, [likes |-> Max(0, @.likes - 1), updatedAt |-> clock])]

\* ------------------------------------------------------------------------
\* Storage engine: likes, plays, track statistics
\* ------------------------------------------------------------------------
isLikeOf(l, userId, trackId) == l.userId = userId /\ l.trackId = trackId

existingLikeNever(ls, userId, trackId) == 0

existingLike(ls, userId, trackId) ==
  FindIndex(ls, LAMBDA l : isLikeOf(l, userId, trackId))

likesWithout(ls, userId, trackId) ==
  SelectSeq(ls, LAMBDA l : ~isLikeOf(l, userId, trackId))

hasUserLikedTrack(ls, userId, trackId) ==
  \E i \in 1..Len(ls) : isLikeOf(ls[i], userId, trackId)

getPlaysByTrack(ps, trackId) == SelectSeq(ps, LAMBDA p : p.trackId = trackId)

\* ------------------------------------------------------------------------
\* Storage engine: follows
\* ------------------------------------------------------------------------
isFollowOf(f, followerId, followingId) ==
  f.followerId = followerId /\ f.followingId = followingId

existingFollowNever(fs, followerId, followingId) == 0

existingFollow(fs, followerId, followingId) ==
  FindIndex(fs, LAMBDA f : isFollowOf(f, followerId, followingId))

\* every follow of the follower is dropped, whoever is followed
followsWithoutFollower(fs, followerId, followingId) ==
  SelectSeq(fs, LAMBDA f : f.followerId # followerId)

followsWithout(fs, followerId, followingId) ==
  SelectSeq(fs, LAMBDA f : ~isFollowOf(f, followerId, followingId))

isFollowing(fs, followerId, followingId) ==
  \E i \in 1..Len(fs) : isFollowOf(fs[i], followerId, followingId)

\* dailyPlays: one counter per calendar day that has a play
dailyPlays(ps) ==
  [d \in {ps[i].createdAt : i \in 1..Len(ps)} |->
     Cardinality({i \in 1..Len(ps) : ps[i].createdAt = d})]

\* avgListenDuration and completionRate are quotients; they are kept as the
\* pair <<dividend, divisor>>, <<0, 1>> standing for the literal 0
computeTrackStats(trackId, ps, clock) ==
  LET mine == getPlaysByTrack(ps, trackId)
      completed == SelectSeq(mine, LAMBDA p : p.completed)
  IN [trackId |-> trackId,
      dailyPlays |-> dailyPlays(mine),
      totalUniqueListeners |-> Cardinality(uniqueListeners(mine)),
      avgListenDuration |->
        IF Len(mine) > 0 THEN <<SumField(mine, "duration"), Len(mine)>> ELSE <<0, 1>>,
      completionRate |->
        IF Len(mine) > 0 THEN <<Len(completed) * 100, Len(mine)>> ELSE <<0, 1>>,
      updatedAt |-> clock]

updateTrackStats(allStats, trackId, ps, clock) ==
  LET stats == computeTrackStats(trackId, ps, clock)
      index == FindIndex(allStats, LAMBDA s : s.trackId = trackId)
  IN IF index > 0 THEN [allStats EXCEPT ![index] = stats]
     ELSE Append(allStats, stats)

\* ------------------------------------------------------------------------
\* Storage engine: search index
\* ------------------------------------------------------------------------
indexTrack(t) ==
  [id |-> t.id, title |-> t.title, artist |-> t.artist, genre |-> t.genre,
   mood |-> IF Has(t, "mood") THEN t.mood ELSE <<>>,
   tags |-> t.tags, plays |-> t.plays, likes |-> t.likes]
  @@ (IF Has(t, "publishedAt") THEN [publishedAt |-> t.publishedAt] ELSE <<>>)

indexUser(u) ==
  [id |-> u.id, username |-> u.username, verified |-> u.verified]
  @@ (IF Has(u, "displayName") THEN [displayName |-> u.displayName] ELSE <<>>)
  @@ (IF Has(u, "bio") THEN [bio |-> u.bio] ELSE <<>>)

\* the index with the drafts in it (not what the code does)
rebuildSearchIndexWithDrafts(ts, us) ==
  [tracks |-> [i \in 1..Len(ts) |-> indexTrack(ts[i])],
   users |-> [i \in 1..Len(us) |-> indexUser(us[i])]]

rebuildSearchIndex(ts, us) ==
  LET pub == SelectSeq(ts, LAMBDA t : t.published)
  IN [tracks |-> [i \in 1..Len(pub) |-> indexTrack(pub[i])],
      users |-> [i \in 1..Len(us) |-> indexUser(us[i])]]

\* ------------------------------------------------------------------------
\* Storage engine: search
\* ------------------------------------------------------------------------
DefaultSearchLimit == 20

trackSearchText(t) ==
  ToLowerCase(t.title \o <<" ">> \o t.artist \o <<" ">> \o t.genre \o <<" ">>
              \o t.mood \o <<" ">> \o JoinSpace(t.tags))

userSearchText(u) ==
  ToLowerCase(u.username \o <<" ">>
              \o (IF Has(u, "displayName") THEN u.displayName ELSE <<>>) \o <<" ">>
              \o (IF Has(u, "bio") THEN u.bio ELSE <<>>))

\* index entries mapped back to the stored records, the missing ones dropped
RECURSIVE Resolve(_, _)
Resolve(items, stored) ==
  IF items = <<>> THEN <<>>
  ELSE LET i == FindIndex(stored, LAMBDA r : r.id = Head(items).id)
       IN (IF i = 0 THEN <<>> ELSE <<stored[i]>>) \o Resolve(Tail(items), stored)

search(index, ts, us, query, filters) ==
  LET q == Trim(ToLowerCase(query))
      limit == IF Has(filters, "limit") /\ filters.limit # 0 THEN filters.limit
               ELSE DefaultSearchLimit
      wants(kind) == ~Has(filters, "type") \/ filters.type \in {kind, "all"}
  IN IF q = <<>> THEN [tracks |-> <<>>, users |-> <<>>]
     ELSE [tracks |->
             IF wants("tracks")
             THEN Resolve(Slice(SelectSeq(index.tracks,
                                          LAMBDA t : Includes(trackSearchText(t), q)),
                                0, limit), ts)
             ELSE <<>>,
           users |->
             IF wants("users")
             THEN Resolve(Slice(SelectSeq(index.users,
                                          LAMBDA u : Includes(userSearchText(u), q)),
                                0, limit), us)
             ELSE <<>>]

\* users.filter(u => userIds.includes(u.id)), userIds the owners of all tracks
getArtists(ts, us) ==
  SelectSeq(us, LAMBDA u : \E i \in 1..Len(ts) : ts[i].userId = u.id)

\* ------------------------------------------------------------------------
\* Request validation (Zod schemas)
\* ------------------------------------------------------------------------
UsernameMin == 3
UsernameMax == 30

\* z.string().email(): a local part, an @, a domain
isEmail(e) == \E i \in 2..(Len(e) - 1) : e[i] = "@"

Keep(r, keys) == [f \in (DOMAIN r) \cap keys |-> r[f]]

createUserKeys ==
  {"username", "email", "password", "displayName", "bio"}

\* the errors createUserSchema.parse(body) throws, empty when it passes
createUserErrors(body) ==
  {f \in {"username", "email", "password"} : ~Has(body, f)}
  \cup (IF Has(body, "username")
           /\ (Len(body.username) < UsernameMin \/ Len(body.username) > UsernameMax)
        THEN {"username"} ELSE {})
  \cup (IF Has(body, "email") /\ ~isEmail(body.email) THEN {"email"} ELSE {})

createTrackKeys ==
  {"userId", "title", "artist", "genre", "mood", "tags", "published"}

updateTrackKeys ==
  {"title", "artist", "genre", "mood", "tags", "plays", "likes", "downloads",
   "shares", "published", "publishedAt", "updatedAt"}

createTrackErrors(body) ==
  {f \in {"userId", "title", "artist", "genre"} : ~Has(body, f)}
  \cup (IF Has(body, "title") /\ Len(body.title) < 1 THEN {"title"} ELSE {})
  \cup (IF Has(body, "artist") /\ Len(body.artist) < 1 THEN {"artist"} ELSE {})

\* createTrackSchema.parse(body): unknown keys stripped, defaults filled in
parseCreateTrack(body) ==
  Merge([tags |-> <<>>, published |-> FALSE], Keep(body, createTrackKeys))

updateTrackErrors(body) ==
  (IF Has(body, "title") /\ Len(body.title) < 1 THEN {"title"} ELSE {})
  \cup (IF Has(body, "artist") /\ Len(body.artist) < 1 THEN {"artist"} ELSE {})

parseUpdateTrack(body) == Keep(body, updateTrackKeys)

\* const { password, ...safeUser } = user
safeUser(u) == Without(u, "password")

safeUsers(us) == [i \in 1..Len(us) |-> safeUser(us[i])]

\* ------------------------------------------------------------------------
\* REST routes.  Every handler leaves its request and its response in last.
\* ------------------------------------------------------------------------
\* prev keeps the request before last when it is one whose successor the
\* properties below look at
Remembered == {"POST /api/tracks/:trackId/like"}

Respond(r) ==
  /\ last' = r
  /\ prev' = IF last.op \in Remembered THEN last ELSE [op |-> "none"]
  /\ UNCHANGED <<client, disk>>

Fresh(coll) == [nextId EXCEPT ![coll] = @ + 1]

\* POST /api/users
PostUsers(body) ==
  LET req == [op |-> "POST /api/users", reqBody |-> body, usersBefore |-> users]
      errors == createUserErrors(body)
      userData == Keep(body, createUserKeys)
      user == newUser(userData, nextId.users, now)
  IN IF errors # {}
     THEN /\ Respond(req @@ [status |-> 400, body |-> [error |-> errors]])
          /\ UNCHANGED <<db, nextId, now>>
     ELSE IF getUserByUsername(users, userData.username) # <<>>
     THEN /\ Respond(req @@ [status |-> 400,
                             body |-> [error |-> "Username already taken"]])
          /\ UNCHANGED <<db, nextId, now>>
     ELSE IF getUserByEmail(users, userData.email) # <<>>
     THEN /\ Respond(req @@ [status |-> 400,
                             body |-> [error |-> "Email already registered"]])
          /\ UNCHANGED <<db, nextId, now>>
     ELSE /\ nextId.users <= MaxUsers
          /\ users' = Append(users, user)
          /\ userStats' = updateUserStats(userStats, user.id, tracks, follows, plays, now)
          /\ nextId' = Fresh("users")
          /\ Respond(req @@ [status |-> 201, body |-> safeUser(user)])
          /\ UNCHANGED <<tracks, likes, downloads, plays, follows, trackStats,
                         searchIndex, now>>

\* PATCH /api/users/:id
PatchUsers(id, body) ==
  LET req == [op |-> "PATCH /api/users/:id", id |-> id, reqBody |-> body]
      index == FindIndex(users, LAMBDA u : u.id = id)
      user == updatedUser(users[index], body, id, now)
  IN IF index = 0
     THEN /\ Respond(req @@ [status |-> 404, body |-> [error |-> "User not found"]])
          /\ UNCHANGED <<db, nextId, now>>
     ELSE /\ users' = [users EXCEPT ![index] = user]
          /\ Respond(req @@ [status |-> 200, body |-> safeUser(user)])
          /\ UNCHANGED <<tracks, likes, downloads, plays, follows, userStats,
                         trackStats, searchIndex, nextId, now>>

\* GET /api/users/:id
GetUsersId(id) ==
  LET req == [op |-> "GET /api/users/:id", id |-> id]
      user == getUser(users, id)
  IN /\ IF user = <<>>
        THEN Respond(req @@ [status |-> 404, body |-> [error |-> "User not found"]])
        ELSE Respond(req @@ [status |-> 200, body |-> safeUser(user[1])])
     /\ UNCHANGED <<db, nextId, now>>

\* GET /api/users/username/:username
GetUsersUsername(username) ==
  LET req == [op |-> "GET /api/users/username/:username", username |-> username]
      user == getUserByUsername(users, username)
  IN /\ IF user = <<>>
        THEN Respond(req @@ [status |-> 404, body |-> [error |-> "User not found"]])
        ELSE Respond(req @@ [status |-> 200, body |-> safeUser(user[1])])
     /\ UNCHANGED <<db, nextId, now>>

\* GET /api/users
GetUsers(query) ==
  LET req == [op |-> "GET /api/users", query |-> query]
      limit == IF Has(query, "limit") THEN query.limit ELSE DefaultLimit
      offset == IF Has(query, "offset") THEN query.offset ELSE 0
  IN /\ Respond(req @@ [status |-> 200,
                        body |-> safeUsers(listUsers(users, limit, offset))])
     /\ UNCHANGED <<db, nextId, now>>

\* GET /api/artists
GetArtists ==
  /\ Respond([op |-> "GET /api/artists", status |-> 200,
              body |-> safeUsers(getArtists(tracks, users))])
  /\ UNCHANGED <<db, nextId, now>>

\* GET /api/search
GetSearch(query) ==
  LET req == [op |-> "GET /api/search", query |-> query]
  IN /\ IF ~Has(query, "q") \/ query.q = <<>>
        THEN Respond(req @@ [status |-> 400,
                             body |-> [error |-> "Query parameter 'q' is required"]])
        ELSE Respond(req @@ [status |-> 200,
                             body |-> search(searchIndex, tracks, users, query.q,
                                             Without(query, "q"))])
     /\ UNCHANGED <<db, nextId, now>>

\* POST /api/search/rebuild
PostSearchRebuild ==
  /\ searchIndex' = rebuildSearchIndex(tracks, users)
  /\ Respond([op |-> "POST /api/search/rebuild", status |-> 200,
              body |-> [success |-> TRUE]])
  /\ UNCHANGED <<users, tracks, likes, downloads, plays, follows, userStats,
                 trackStats, nextId, now>>

\* GET /api/users/:id/stats
GetUsersStats(id) ==
  /\ Respond([op |-> "GET /api/users/:id/stats", id |-> id, status |-> 200,
              body |-> getUserStats(userStats, id, tracks, follows, plays, now)])
  /\ userStats' = IF FindIndex(userStats, LAMBDA s : s.userId = id) > 0
                  THEN userStats
                  ELSE updateUserStats(userStats, id, tracks, follows, plays, now)
  /\ UNCHANGED <<users, tracks, likes, downloads, plays, follows, trackStats,
                 searchIndex, nextId, now>>

\* GET /api/tracks
GetTracks(filters) ==
  /\ Respond([op |-> "GET /api/tracks", filters |-> filters, status |-> 200,
              body |-> listTracks(tracks, filters)])
  /\ UNCHANGED <<db, nextId, now>>

\* POST /api/tracks
PostTracks(body) ==
  LET req == [op |-> "POST /api/tracks", reqBody |-> body]
      errors == createTrackErrors(body)
      track == newTrack(parseCreateTrack(body), nextId.tracks, now)
      written == Append(tracks, track)
  IN IF errors # {}
     THEN /\ Respond(req @@ [status |-> 400, body |-> [error |-> errors]])
          /\ UNCHANGED <<db, nextId, now>>
     ELSE /\ nextId.tracks <= MaxTracks
          /\ tracks' = written
          /\ userStats' = updateUserStats(userStats, track.userId, written, follows,
                                          plays, now)
          /\ searchIndex' = rebuildSearchIndex(written, users)
          /\ nextId' = Fresh("tracks")
          /\ Respond(req @@ [status |-> 201, body |-> track])
          /\ UNCHANGED <<users, likes, downloads, plays, follows, trackStats, now>>

\* PATCH /api/tracks/:id
PatchTracks(id, body) ==
  LET req == [op |-> "PATCH /api/tracks/:id", id |-> id, reqBody |-> body,
              trackBefore |-> getTrack(tracks, id)]
      errors == updateTrackErrors(body)
      index == FindIndex(tracks, LAMBDA t : t.id = id)
      track == updatedTrack(tracks[index], parseUpdateTrack(body), id, now)
      written == [tracks EXCEPT ![index] = track]
  IN IF errors # {}
     THEN /\ Respond(req @@ [status |-> 400, body |-> [error |-> errors]])
          /\ UNCHANGED <<db, nextId, now>>
     ELSE IF index = 0
     THEN /\ Respond(req @@ [status |-> 404, body |-> [error |-> "Track not found"]])
          /\ UNCHANGED <<db, nextId, now>>
     ELSE /\ tracks' = written
          /\ searchIndex' = rebuildSearchIndex(written, users)
          /\ Respond(req @@ [status |-> 200, body |-> track])
          /\ UNCHANGED <<users, likes, downloads, plays, follows, userStats,
                         trackStats, nextId, now>>

\* DELETE /api/tracks/:id
DeleteTracks(id) ==
  LET req == [op |-> "DELETE /api/tracks/:id", id |-> id]
      filtered == SelectSeq(tracks, LAMBDA t : t.id # id)
  IN IF Len(filtered) = Len(tracks)
     THEN /\ Respond(req @@ [status |-> 404, body |-> [error |-> "Track not found"]])
          /\ UNCHANGED <<db, nextId, now>>
     ELSE /\ tracks' = filtered
          /\ searchIndex' = rebuildSearchIndex(filtered, users)
          /\ Respond(req @@ [status |-> 200, body |-> [success |-> TRUE]])
          /\ UNCHANGED <<users, likes, downloads, plays, follows, userStats,
                         trackStats, nextId, now>>

\* POST /api/tracks/:trackId/like
PostLike(trackId, body) ==
  LET req == [op |-> "POST /api/tracks/:trackId/like", trackId |-> trackId,
              reqBody |-> body, trackBefore |-> getTrack(tracks, trackId),
              likedBefore |-> Has(body, "userId")
                              /\ hasUserLikedTrack(likes, body.userId, trackId)]
      existing == existingLike(likes, body.userId, trackId)
      like == [id |-> nextId.likes, userId |-> body.userId, trackId |-> trackId,
               createdAt |-> now]
  IN IF ~Has(body, "userId")
     THEN /\ Respond(req @@ [status |-> 400, body |-> [error |-> "userId is required"]])
          /\ UNCHANGED <<db, nextId, now>>
     ELSE IF existing > 0
     THEN /\ Respond(req @@ [status |-> 201, body |-> likes[existing]])
          /\ UNCHANGED <<db, nextId, now>>
     ELSE /\ nextId.likes <= MaxLikes
          /\ likes' = Append(likes, like)
          /\ tracks' = incrementTrackLikes(tracks, trackId, now)
          /\ nextId' = Fresh("likes")
          /\ Respond(req @@ [status |-> 201, body |-> like])
          /\ UNCHANGED <<users, downloads, plays, follows, userStats, trackStats,
                         searchIndex, now>>

\* DELETE /api/tracks/:trackId/like
DeleteLike(trackId, body) ==
  LET req == [op |-> "DELETE /api/tracks/:trackId/like", trackId |-> trackId,
              reqBody |-> body, trackBefore |-> getTrack(tracks, trackId),
              likedBefore |-> Has(body, "userId")
                              /\ hasUserLikedTrack(likes, body.userId, trackId)]
      filtered == likesWithout(likes, body.userId, trackId)
  IN IF ~Has(body, "userId")
     THEN /\ Respond(req @@ [status |-> 400, body |-> [error |-> "userId is required"]])
          /\ UNCHANGED <<db, nextId, now>>
     ELSE IF Len(filtered) = Len(likes)
     THEN /\ Respond(req @@ [status |-> 404, body |-> [error |-> "Like not found"]])
          /\ UNCHANGED <<db, nextId, now>>
     ELSE /\ likes' = filtered
          /\ tracks' = decrementTrackLikes(tracks, trackId, now)
          /\ Respond(req @@ [status |-> 200, body |-> [success |-> TRUE]])
          /\ UNCHANGED <<users, downloads, plays, follows, userStats, trackStats,
                         searchIndex, nextId, now>>

\* POST /api/tracks/:trackId/play
PostPlay(trackId, body) ==
  LET play == Keep(body, {"userId"})
              @@ [trackId |-> trackId,
                  duration |-> IF Has(body, "duration") THEN body.duration ELSE 0,
                  completed |-> IF Has(body, "completed") THEN body.completed
                                ELSE FALSE]
      newPlay == Merge(play, [id |-> nextId.plays, createdAt |-> now])
      written == Append(plays, newPlay)
  IN /\ nextId.plays <= MaxPlays
     /\ plays' = written
     /\ tracks' = incrementTrackPlays(tracks, trackId, now)
     /\ trackStats' = updateTrackStats(trackStats, trackId, written, now)
     /\ nextId' = Fresh("plays")
     /\ Respond([op |-> "POST /api/tracks/:trackId/play", trackId |-> trackId,
                 reqBody |-> body, status |-> 201, body |-> newPlay])
     /\ UNCHANGED <<users, likes, downloads, follows, userStats, searchIndex, now>>

\* POST /api/tracks/:trackId/download
PostDownload(trackId, body) ==
  LET download == Keep(body, {"userId"}) @@ [trackId |-> trackId]
      newDownload == Merge(download, [id |-> nextId.downloads, createdAt |-> now])
  IN /\ nextId.downloads <= MaxDownloads
     /\ downloads' = Append(downloads, newDownload)
     /\ tracks' = incrementTrackDownloads(tracks, trackId, now)
     /\ nextId' = Fresh("downloads")
     /\ Respond([op |-> "POST /api/tracks/:trackId/download", trackId |-> trackId,
                 reqBody |-> body, status |-> 201, body |-> newDownload])
     /\ UNCHANGED <<users, likes, plays, follows, userStats, trackStats,
                    searchIndex, now>>

\* POST /api/users/:userId/follow
PostFollow(userId, body) ==
  LET req == [op |-> "POST /api/users/:userId/follow", userId |-> userId,
              reqBody |-> body,
              followedBefore |-> Has(body, "followerId")
                                 /\ isFollowing(follows, body.followerId, userId)]
      existing == existingFollow(follows, body.followerId, userId)
      follow == [id |-> nextId.follows, followerId |-> body.followerId,
                 followingId |-> userId, createdAt |-> now]
      written == Append(follows, follow)
  IN IF ~Has(body, "followerId")
     THEN /\ Respond(req @@ [status |-> 400,
                             body |-> [error |-> "followerId is required"]])
          /\ UNCHANGED <<db, nextId, now>>
     ELSE IF existing > 0
     THEN /\ Respond(req @@ [status |-> 201, body |-> follows[existing]])
          /\ UNCHANGED <<db, nextId, now>>
     ELSE /\ nextId.follows <= MaxFollows
          /\ follows' = written
          /\ userStats' =
               updateUserStats(
                 updateUserStats(userStats, body.followerId, tracks, written,
                                 plays, now),
                 userId, tracks, written, plays, now)
          /\ nextId' = Fresh("follows")
          /\ Respond(req @@ [status |-> 201, body |-> follow])
          /\ UNCHANGED <<users, tracks, likes, downloads, plays, trackStats,
                         searchIndex, now>>

\* DELETE /api/users/:userId/follow
DeleteFollow(userId, body) ==
  LET req == [op |-> "DELETE /api/users/:userId/follow", userId |-> userId,
              reqBody |-> body,
              followedBefore |-> Has(body, "followerId")
                                 /\ isFollowing(follows, body.followerId, userId)]
      filtered == followsWithout(follows, body.followerId, userId)
  IN IF ~Has(body, "followerId")
     THEN /\ Respond(req @@ [status |-> 400,
                             body |-> [error |-> "followerId is required"]])
          /\ UNCHANGED <<db, nextId, now>>
     ELSE IF Len(filtered) = Len(follows)
     THEN /\ Respond(req @@ [status |-> 404, body |-> [error |-> "Follow not found"]])
          /\ UNCHANGED <<db, nextId, now>>
     ELSE /\ follows' = filtered
          /\ userStats' =
               updateUserStats(
                 updateUserStats(userStats, body.followerId, tracks, filtered,
                                 plays, now),
                 userId, tracks, filtered, plays, now)
          /\ Respond(req @@ [status |-> 200, body |-> [success |-> TRUE]])
          /\ UNCHANGED <<users, tracks, likes, downloads, plays, trackStats,
                         searchIndex, nextId, now>>

\* the wall clock advances between two requests
Tick(days) ==
  /\ now' = now + days
  /\ UNCHANGED <<db, nextId, last, prev, disk>>
  /\ UNCHANGED client

\* ------------------------------------------------------------------------
\* Client: camelCase <-> snake_case (lib/caseTransform)
\*
\* A JSON value is null, a primitive, an array or a plain object:
\*   [type |-> "null"], [type |-> "prim", value |-> n],
\*   [type |-> "array", items |-> <<...>>],
\*   [type |-> "object", fields |-> [key |-> value]]
\* and a key is a tuple of one-character strings.
\* ------------------------------------------------------------------------
Null == [type |-> "null"]

Prim(n) == [type |-> "prim", value |-> n]

Arr(items) == [type |-> "array", items |-> items]

Obj(fields) == [type |-> "object", fields |-> fields]

\* what an uncaught TypeError leaves the caller with
TypeError == [type |-> "TypeError"]

\* str.replace(/[A-Z]/g, letter => `_${letter.toLowerCase()}`)
RECURSIVE toSnakeCase(_)
toSnakeCase(str) ==
  IF str = <<>> THEN <<>>
  ELSE IF LowerChar(Head(str)) # Head(str)
  THEN <<"_", LowerChar(Head(str))>> \o toSnakeCase(Tail(str))
  ELSE <<Head(str)>> \o toSnakeCase(Tail(str))

\* the separator is kept and the letter is not raised
RECURSIVE toCamelCaseKeepsSeparator(_)
toCamelCaseKeepsSeparator(str) ==
  IF str = <<>> THEN <<>>
  ELSE <<Head(str)>> \o toCamelCaseKeepsSeparator(Tail(str))

\* str.replace(/_([a-z])/g, (_, letter) => letter.toUpperCase())
RECURSIVE toCamelCase(_)
toCamelCase(str) ==
  IF str = <<>> THEN <<>>
  ELSE IF /\ Head(str) = "_"
          /\ Len(str) >= 2
          /\ UpperChar(str[2]) # str[2]
  THEN <<UpperChar(str[2])>> \o toCamelCase(Tail(Tail(str)))
  ELSE <<Head(str)>> \o toCamelCase(Tail(str))

ConstructorKey == <<"c", "o", "n", "s", "t", "r", "u", "c", "t", "o", "r">>

HasOwnPropertyKey ==
  <<"h", "a", "s", "O", "w", "n", "P", "r", "o", "p", "e", "r", "t", "y">>

\* typeof obj === 'object' && obj.constructor === Object: an own property
\* named constructor shadows Object.prototype.constructor
isPlainObject(obj) ==
  obj.type = "object" /\ ~Has(obj.fields, ConstructorKey)

\* obj.hasOwnProperty(key) in the loop: an own property named
\* hasOwnProperty shadows the method, and calling a JSON value throws
hasOwnPropertyThrows(obj) == Has(obj.fields, HasOwnPropertyKey)

\* converted[renamed] = value for every key, in for-in order: of two keys
\* renamed alike the later one wins; the order among those is the object's
\* insertion order, which a map of fields does not keep
Renamed(fields, rename(_), convert(_)) ==
  LET names == {rename(k) : k \in DOMAIN fields}
  IN [n \in names |->
        convert(fields[CHOOSE k \in DOMAIN fields : rename(k) = n])]

Thrown(values) == \E i \in DOMAIN values : values[i] = TypeError

RECURSIVE toSnakeCaseObject(_)
toSnakeCaseObject(obj) ==
  IF obj.type = "null" THEN obj
  ELSE IF obj.type = "array"
  THEN LET items == [i \in DOMAIN obj.items |-> toSnakeCaseObject(obj.items[i])]
       IN IF Thrown(items) THEN TypeError ELSE Arr(items)
  ELSE IF isPlainObject(obj)
  THEN IF hasOwnPropertyThrows(obj) THEN TypeError
       ELSE LET converted ==
                  Renamed(obj.fields, toSnakeCase, toSnakeCaseObject)
            IN IF Thrown(converted) THEN TypeError ELSE Obj(converted)
  ELSE obj

RECURSIVE toCamelCaseObject(_)
toCamelCaseObject(obj) ==
  IF obj.type = "null" THEN obj
  ELSE IF obj.type = "array"
  THEN LET items == [i \in DOMAIN obj.items |-> toCamelCaseObject(obj.items[i])]
       IN IF Thrown(items) THEN TypeError ELSE Arr(items)
  ELSE IF isPlainObject(obj)
  THEN IF hasOwnPropertyThrows(obj) THEN TypeError
       ELSE LET converted ==
                  Renamed(obj.fields, toCamelCase, toCamelCaseObject)
            IN IF Thrown(converted) THEN TypeError ELSE Obj(converted)
  ELSE obj

Idle == [pc |-> "idle"]

\* apiRequestJson, the way out: body -> toSnakeCaseObject(body)
Outgoing(body) ==
  /\ wire' = [pc |-> "out", x |-> body, snake |-> toSnakeCaseObject(body)]
  /\ UNCHANGED <<server, store, auth, call, player>>

\* apiRequestJson, the way in of a body the server sends back as it got it:
\* data -> toCamelCaseObject(data); nothing is sent when the way out threw
Incoming ==
  /\ wire.pc = "out"
  /\ wire.snake # TypeError
  /\ wire' = [wire EXCEPT !.pc = "in"] @@ [camel |-> toCamelCaseObject(wire.snake)]
  /\ UNCHANGED <<server, store, auth, call, player>>

\* ------------------------------------------------------------------------
\* Client: the API request client (lib/queryClient) and the stored tokens
\*
\* localStorage is a record whose absent keys are the items not stored.  A
\* response is [status, body]; body is the parsed JSON object (absent keys
\* are undefined) or NotJson when response.json() rejects.  An error
\* message is the tuple of the pieces its template literal joins.
\* ------------------------------------------------------------------------
NotJson == [notJson |-> TRUE]

\* response.ok
isOk(response) == response.status >= 200 /\ response.status <= 299

statusText(status) ==
  CASE status = 200 -> "OK"
    [] status = 204 -> "No Content"
    [] status = 400 -> "Bad Request"
    [] status = 401 -> "Unauthorized"
    [] status = 404 -> "Not Found"
    [] OTHER -> "Internal Server Error"

statusLine(response) ==
  <<ToString(response.status), ": ", statusText(response.status)>>

\* assertOk: <<>> when the response is OK, else the message of the Error
assertOk(response) ==
  IF isOk(response) THEN <<>>
  ELSE IF response.status >= 500
  THEN <<"Server error ">> \o statusLine(response)
  ELSE LET errorData == IF response.body = NotJson THEN [x \in {} |-> 0]
                        ELSE response.body
       IN IF Has(errorData, "message") THEN <<errorData.message>>
          ELSE IF Has(errorData, "detail") THEN <<errorData.detail>>
          ELSE IF Has(errorData, "error") THEN <<errorData.error>>
          ELSE statusLine(response)

NoItems == [k \in {} |-> ""]

\* localStorage.setItem(key, value) when value is truthy
setItemIf(items, data, field, key) ==
  IF Has(data, field) THEN Merge(items, [k \in {key} |-> data[field]])
  ELSE items

clearTokens(items) ==
  Without(Without(Without(items, "accessToken"), "refreshToken"), "userId")

\* the headers handed in win over the stored token
buildAuthHeadersStale(extra, items) ==
  IF Has(items, "accessToken") /\ ~Has(extra, "Authorization")
  THEN Merge(extra, [Authorization |-> <<"Bearer ", items.accessToken>>])
  ELSE extra

buildAuthHeaders(extra, items) ==
  IF Has(items, "accessToken")
  THEN Merge(extra, [Authorization |-> <<"Bearer ", items.accessToken>>])
  ELSE extra

\* a 401 is looked for after every fetch
refreshesAfterEverySend(sent) == TRUE

\* `if (response.status === 401)` follows the first fetch only
refreshesAfter(sent) == sent = 1

\* attemptTokenRefresh, from the answer of the refresh endpoint on:
\* the items afterwards and whether a new access token was obtained
refreshedItems(items, answer) ==
  IF answer.kind = "ok" /\ answer.data # NotJson
  THEN setItemIf(setItemIf(items, answer.data, "access", "accessToken"),
                 answer.data, "refresh", "refreshToken")
  ELSE items

refreshed(answer) ==
  answer.kind = "ok" /\ answer.data # NotJson /\ Has(answer.data, "access")

NoCall == [pc |-> "idle"]

Unauthorized == <<"401", ": ", "Unauthorized">>

\* the call ends: returns, or throws the Error with this message
Returned(c, response) ==
  [c EXCEPT !.pc = "done"] @@ [outcome |-> "returned", final |-> response]

Threw(c, message) ==
  [c EXCEPT !.pc = "done"] @@ [outcome |-> "threw", error |-> message]

\* apiRequestJson / apiRequestFormData up to the first fetch
ApiRequest(kind) ==
  /\ call.pc \in {"idle", "done"}
  /\ call' = [pc |-> "fetch", kind |-> kind, sent |-> 1, refreshes |-> 0,
              headers |-> buildAuthHeaders(
                 IF kind = "json"
                 THEN [ContentType |-> <<"application/json">>]
                 ELSE [k \in {} |-> <<>>], store)]
  /\ UNCHANGED <<server, wire, store, auth, player>>

\* fetch rejects (network failure): the call throws what fetch threw
FetchRejects ==
  /\ call.pc = "fetch"
  /\ call' = Threw(call, <<"Failed to fetch">>)
  /\ UNCHANGED <<server, wire, store, auth, player>>

\* the answer to the request: a 401 to the first attempt starts
\* refreshAndRetry, any other answer goes to assertOk
Answer(response) ==
  /\ call.pc = "fetch"
  /\ IF response.status = 401 /\ refreshesAfter(call.sent)
     THEN IF ~Has(store, "refreshToken")
          THEN /\ store' = clearTokens(store)
               /\ call' = Threw(call @@ [failure |-> "no refresh token"],
                                Unauthorized)
          ELSE /\ call' = [call EXCEPT !.pc = "refresh", !.refreshes = @ + 1]
               /\ UNCHANGED store
     ELSE /\ call' = IF assertOk(response) = <<>>
                     THEN Returned(call, response)
                     ELSE Threw(call @@ [final |-> response], assertOk(response))
          /\ UNCHANGED store
  /\ UNCHANGED <<server, wire, auth, player>>

\* the answer of the refresh endpoint: attemptTokenRefresh ends and
\* refreshAndRetry either retries with fresh headers or clears and throws
RefreshAnswer(answer) ==
  /\ call.pc = "refresh"
  /\ LET items == refreshedItems(store, answer)
     IN IF refreshed(answer)
        THEN /\ store' = items
             /\ call' = [call EXCEPT !.pc = "fetch", !.sent = @ + 1,
                           !.headers = buildAuthHeaders(call.headers, items)]
                        @@ [access |-> answer.data.access]
        ELSE /\ store' = clearTokens(items)
             /\ call' = Threw(call @@ [failure |-> answer.kind], Unauthorized)
  /\ UNCHANGED <<server, wire, auth, player>>

\* ------------------------------------------------------------------------
\* Client: the player (PlayerProvider, PlayerBar, Discover.handlePlay)
\*
\* active is <<>> (null) or <<track id>>.  A handler, the render it causes
\* and the effects of that render are one step: the state updates an effect
\* queues are applied in the order of the effects, before anything else
\* runs.  likeChecks are the like-status fetches still unanswered.
\* ------------------------------------------------------------------------
\* the audio element: the track its src attribute names, the last of play()
\* and pause() called on it since that src was set, and whether a promise
\* that play() returned is still unsettled
NoAudio == [src |-> <<>>, called |-> "none", pending |-> FALSE]

NoPlayer ==
  [active |-> <<>>, autoPlay |-> FALSE, isPlaying |-> FALSE, isLiked |-> FALSE,
   currentTime |-> 0, likeChecks |-> {}, by |-> "mount", audio |-> NoAudio]

\* the position is left where it was
resetOnTrackChangeKeepsTime(before, p) ==
  IF p.active # before.active
  THEN [p EXCEPT !.isPlaying = FALSE, !.isLiked = FALSE]
  ELSE p

\* useEffect(..., [active?.id]): reset on track change
resetOnTrackChange(before, p) ==
  IF p.active # before.active
  THEN [p EXCEPT !.isPlaying = FALSE, !.currentTime = 0, !.isLiked = FALSE]
  ELSE p

\* useEffect(..., [active?.id, user?.id]): fetch the like status
fetchLikeStatus(before, userBefore, user, p) ==
  IF (p.active # before.active \/ user # userBefore)
     /\ p.active # <<>> /\ user # <<>>
  THEN [p EXCEPT !.likeChecks = @ \cup {p.active[1]}]
  ELSE p

\* useEffect(..., [autoPlay, active]): autoplay
autoplay(before, p) ==
  IF (p.active # before.active \/ p.autoPlay # before.autoPlay)
     /\ p.autoPlay /\ p.active # <<>>
  THEN [p EXCEPT !.autoPlay = FALSE, !.isPlaying = TRUE]
  ELSE p

\* the effects of one render, in the order PlayerBar declares them
effects(before, userBefore, user, p) ==
  autoplay(before,
    fetchLikeStatus(before, userBefore, user,
      resetOnTrackChange(before, p)))

\* the commit of a render: <audio src={active?.audioUrl}>.  A src that is
\* set makes the element load the new track, paused, with no call made on
\* it yet; a src that is removed leaves the element as it is.
commitSrc(p) ==
  IF p.audio.src = p.active THEN p
  ELSE IF p.active = <<>> THEN [p EXCEPT !.audio.src = <<>>]
  ELSE [p EXCEPT !.audio.src = p.active, !.audio.called = "none"]

\* useEffect(..., [isPlaying]): audio.play() or audio.pause()
syncAudio(isPlayingBefore, p) ==
  IF p.isPlaying # isPlayingBefore /\ p.active # <<>>
  THEN IF p.isPlaying
       THEN [p EXCEPT !.audio.called = "play", !.audio.pending = TRUE]
       ELSE [p EXCEPT !.audio.called = "pause"]
  ELSE p

\* the render that follows a handler, with the state p the handler left, and
\* the render that follows the state its effects set: both commit and run
\* the sync effect when isPlaying differs from the render before
render(before, userBefore, user, p) ==
  LET first == syncAudio(before.isPlaying, commitSrc(p))
  IN syncAudio(first.isPlaying, effects(before, userBefore, user, first))

SignedOut == [user |-> <<>>, isAuthenticated |-> FALSE]

\* a logout that waits for the answer to its request goes on waiting
pendingLogout(a) ==
  IF Has(a, "logout") /\ a.logout = "sent" THEN [logout |-> "sent"]
  ELSE [k \in {} |-> ""]

\* AuthProvider.login, from the answer of the login endpoint on
Login(response) ==
  /\ IF ~isOk(response) \/ response.body = NotJson
     THEN UNCHANGED <<store, auth>>
     ELSE LET data == response.body
              token == IF Has(data, "token") THEN data.token ELSE NoItems
              items == setItemIf(setItemIf(store, token, "access", "accessToken"),
                                 token, "refresh", "refreshToken")
          IN IF Has(data, "user") /\ Has(data.user, "id")
             THEN /\ store' = Merge(items, [userId |-> data.user.id])
                  /\ auth' = [user |-> <<data.user>>, isAuthenticated |-> TRUE]
                             @@ pendingLogout(auth)
             ELSE /\ store' = items
                  /\ UNCHANGED auth
  /\ player' = render(player, auth.user, auth'.user, player)
  /\ UNCHANGED <<server, wire, call>>

\* Discover.handlePlay(t): the play button of a track card
HandlePlay(t) ==
  /\ player' =
       IF player.active = <<t>>
       THEN render(player, auth.user, auth.user,
                   [player EXCEPT !.isPlaying = ~@, !.by = "handlePlay"])
       ELSE render(player, auth.user, auth.user,
                   [player EXCEPT !.autoPlay = TRUE, !.active = <<t>>,
                                  !.by = "handlePlay"])
  /\ UNCHANGED <<server, wire, store, auth, call>>

\* PlayerBar.onClear: setActive(null)
OnClear ==
  /\ player' = render(player, auth.user, auth.user,
                      [player EXCEPT !.active = <<>>, !.by = "onClear"])
  /\ UNCHANGED <<server, wire, store, auth, call>>

\* PlayerBar.togglePlay
TogglePlay ==
  /\ player.active # <<>>
  /\ player' = render(player, auth.user, auth.user,
                      [player EXCEPT !.isPlaying = ~@, !.by = "togglePlay"])
  /\ UNCHANGED <<server, wire, store, auth, call>>

\* the audio element reports its position while it plays (timeupdate)
UpdateTime(time) ==
  /\ player.active # <<>>
  /\ player.isPlaying
  /\ time >= player.currentTime
  /\ player' = [player EXCEPT !.currentTime = time, !.by = "updateTime"]
  /\ UNCHANGED <<server, wire, store, auth, call>>

\* PlayerBar.handleSeek
HandleSeek(newTime) ==
  /\ player.active # <<>>
  /\ player' = [player EXCEPT !.currentTime = newTime, !.by = "handleSeek"]
  /\ UNCHANGED <<server, wire, store, auth, call>>

\* the audio element reports the end of the track (ended)
HandleEnded ==
  /\ player.active # <<>>
  /\ player.isPlaying
  /\ player.audio.called = "play"
  /\ player' = render(player, auth.user, auth.user,
                      [player EXCEPT !.isPlaying = FALSE, !.by = "handleEnded"])
  /\ UNCHANGED <<server, wire, store, auth, call>>

\* the promise of audio.play() is fulfilled: the track plays
PlayFulfilled ==
  /\ player.audio.pending
  /\ player' = [player EXCEPT !.audio.pending = FALSE, !.by = "play"]
  /\ UNCHANGED <<server, wire, store, auth, call>>

\* the promise of audio.play() is rejected: .catch sets isPlaying false
PlaybackError ==
  /\ player.audio.pending
  /\ player' = render(player, auth.user, auth.user,
                      [player EXCEPT !.audio.pending = FALSE,
                                     !.isPlaying = FALSE, !.by = "playbackError"])
  /\ UNCHANGED <<server, wire, store, auth, call>>

\* the answer to a like-status fetch: setIsLiked(!!data.hasLiked), for
\* whichever track is active by now
LikeStatus(trackId, hasLiked) ==
  /\ trackId \in player.likeChecks
  /\ player' = [player EXCEPT !.likeChecks = @ \ {trackId},
                              !.isLiked = hasLiked, !.by = "likeStatus"]
  /\ UNCHANGED <<server, wire, store, auth, call>>

\* a like-status fetch fails or its body is no JSON: .catch(() => {})
LikeStatusFails(trackId) ==
  /\ trackId \in player.likeChecks
  /\ player' = [player EXCEPT !.likeChecks = @ \ {trackId},
                              !.by = "likeStatus"]
  /\ UNCHANGED <<server, wire, store, auth, call>>

\* ------------------------------------------------------------------------
\* Initial state: the constructor creates every file empty
\* ------------------------------------------------------------------------
NoRequest == [op |-> "none"]

\* the server processes, none of them inside a storage method
Writers == {1, 2}

IdleWriter == [pc |-> "idle"]

NoWriters == [w \in Writers |-> IdleWriter]

Init ==
  /\ users = <<>>
  /\ tracks = <<>>
  /\ likes = <<>>
  /\ downloads = <<>>
  /\ plays = <<>>
  /\ follows = <<>>
  /\ userStats = <<>>
  /\ trackStats = <<>>
  /\ searchIndex = [tracks |-> <<>>, users |-> <<>>]
  /\ nextId = [users |-> 1, tracks |-> 1, likes |-> 1, downloads |-> 1,
               plays |-> 1, follows |-> 1]
  /\ now = 0
  /\ last = NoRequest
  /\ prev = NoRequest
  /\ wire = Idle
  /\ store = NoItems
  /\ auth = SignedOut
  /\ call = NoCall
  /\ player = NoPlayer
  /\ unreadable = {}
  /\ writers = NoWriters

\* ------------------------------------------------------------------------
\* Likes: tracks are uploaded, patched and deleted, users like and unlike
\* ------------------------------------------------------------------------
Song == <<"s", "o">>
Band == <<"B", "a">>
Rock == <<"r", "k">>
Jazz == <<"J", "z">>

\* the ids a client can name: those handed out so far, and 0 for an id that
\* no record ever had
KnownIds(coll) == 0..(nextId[coll] - 1)

LikeUserIds == 1..2

LikeBodies == {[userId |-> u] : u \in LikeUserIds}

NextLikes ==
  \/ /\ nextId.tracks <= LikesMaxTracks
     /\ PostTracks([userId |-> 1, title |-> Song, artist |-> Band, genre |-> Rock,
                    published |-> TRUE])
  \/ \E id \in 1..(nextId.tracks - 1), n \in {-1, 2} : PatchTracks(id, [likes |-> n])
  \/ \E id \in 1..(nextId.tracks - 1), body \in LikeBodies : PostLike(id, body)
  \/ \E id \in 1..(nextId.tracks - 1), body \in LikeBodies : DeleteLike(id, body)

SpecLikes == Init /\ [][NextLikes]_vars

likeRecords(ls, userId, trackId) ==
  Cardinality({i \in 1..Len(ls) : isLikeOf(ls[i], userId, trackId)})

\* two consecutive like requests of one user for one stored track
LikedTwice ==
  /\ prev.op = "POST /api/tracks/:trackId/like"
  /\ last.op = "POST /api/tracks/:trackId/like"
  /\ prev.status = 201 /\ last.status = 201
  /\ prev.trackId = last.trackId
  /\ prev.reqBody = last.reqBody
  /\ prev.trackBefore # <<>>

\* C1: liking twice in a row is idempotent.  Afterwards exactly one Like
\* record of the pair exists, the second call returns the record the first
\* call returned, and when the first call created that record the track's
\* likes counter is exactly 1 higher than before the first call, not 2 (when
\* the pair was liked already, neither call changes the counter).
C1_LikeTwiceIdempotent ==
  LikedTwice =>
    /\ likeRecords(likes, last.reqBody.userId, last.trackId) = 1
    /\ last.body = prev.body
    /\ last.body \in Range(likes)
    /\ getTrack(tracks, last.trackId)[1].likes
         = prev.trackBefore[1].likes + (IF prev.likedBefore THEN 0 ELSE 1)

C1_Witness ==
  /\ LikedTwice
  /\ ~prev.likedBefore
  /\ last.likedBefore
  /\ prev.trackBefore[1].likes = 2
  /\ getTrack(tracks, last.trackId)[1].likes = 3
  /\ Len(likes) = 2

\* a like request followed by an unlike request of the same pair
LikedThenUnliked ==
  /\ prev.op = "POST /api/tracks/:trackId/like"
  /\ last.op = "DELETE /api/tracks/:trackId/like"
  /\ prev.status = 201 /\ last.status = 200
  /\ prev.trackId = last.trackId
  /\ prev.reqBody = last.reqBody
  /\ prev.trackBefore # <<>>

\* C2 as stated: like followed by unlike restores the likes counter to its
\* value before the like, whatever the value and whether or not the pair was
\* liked beforehand.
C2_LikeUnlikeRestoresAlways ==
  LikedThenUnliked =>
    getTrack(tracks, last.trackId)[1].likes = prev.trackBefore[1].likes

\* C2 (amended): for a pair that is not liked beforehand and a track whose
\* likes counter is not negative, like followed by unlike restores the likes
\* counter to its value before the like.
C2_LikeUnlikeRestores ==
  (LikedThenUnliked /\ ~prev.likedBefore /\ prev.trackBefore[1].likes >= 0) =>
    getTrack(tracks, last.trackId)[1].likes = prev.trackBefore[1].likes

C2_Witness ==
  /\ LikedThenUnliked
  /\ ~prev.likedBefore
  /\ prev.trackBefore[1].likes = 2
  /\ getTrack(tracks, last.trackId)[1].likes = 2

\* ------------------------------------------------------------------------
\* Users: sign-up, profile updates, and every GET route that answers with
\* user-shaped objects
\* ------------------------------------------------------------------------
UsersMaxTracks == 1

Ali == <<"a", "l", "i">>
Bob == <<"B", "o", "b">>
MailA == <<"a", "@", "x">>
MailB == <<"b", "@", "x">>
Secret == <<"p", "w">>

SignUpBodies ==
  {[username |-> n, email |-> e, password |-> Secret] :
     n \in {Ali, Bob}, e \in {MailA, MailB}}
  \cup {[username |-> Ali, email |-> MailA]}

ProfilePatches ==
  {[username |-> Ali], [email |-> MailA], [bio |-> Bob, password |-> Ali]}

SearchQueries ==
  {[q |-> <<"a", "l">>], [q |-> <<"b">>, type |-> "users"], [q |-> <<" ">>], <<>>}

NextUsers ==
  \/ \E body \in SignUpBodies : PostUsers(body)
  \/ \E id \in KnownIds("users"), body \in ProfilePatches : PatchUsers(id, body)
  \/ \E id \in KnownIds("users") : GetUsersId(id)
  \/ \E name \in {Ali, Bob} : GetUsersUsername(name)
  \/ \E query \in {<<>>, [limit |-> 1, offset |-> 1]} : GetUsers(query)
  \/ GetArtists
  \/ \E query \in SearchQueries : GetSearch(query)
  \/ PostSearchRebuild
  \/ /\ nextId.tracks <= UsersMaxTracks
     /\ \E owner \in KnownIds("users") :
          PostTracks([userId |-> owner, title |-> Song, artist |-> Band,
                      genre |-> Rock, published |-> TRUE])

SpecUsers == Init /\ [][NextUsers]_vars

\* the user-shaped objects of the response in last
UserObjects ==
  CASE last.op \in {"GET /api/users/:id", "GET /api/users/username/:username"}
         /\ last.status = 200 -> {last.body}
    [] last.op \in {"GET /api/users", "GET /api/artists"} -> Range(last.body)
    [] last.op = "GET /api/search" /\ last.status = 200 -> Range(last.body.users)
    [] OTHER -> {}

\* C3: no response of a GET endpoint (user by id, user by username, user
\* list, artists list, search) contains a user's password field.
C3_NoPasswordInGetResponses ==
  \A u \in UserObjects : ~Has(u, "password")

\* C6: POST /api/users with a username an existing user has, or an email that
\* is registered, answers 400, creates no user and leaves the users
\* collection unchanged; a body that passes the schema gets the error
\* "Username already taken", respectively "Email already registered".
UsernameTaken ==
  Has(last.reqBody, "username")
  /\ \E i \in 1..Len(last.usersBefore) :
       last.usersBefore[i].username = last.reqBody.username

EmailRegistered ==
  Has(last.reqBody, "email")
  /\ \E i \in 1..Len(last.usersBefore) :
       last.usersBefore[i].email = last.reqBody.email

C6_DuplicateSignUpRejected ==
  (last.op = "POST /api/users" /\ (UsernameTaken \/ EmailRegistered)) =>
    /\ last.status = 400
    /\ users = last.usersBefore
    /\ createUserErrors(last.reqBody) = {} =>
         last.body.error = IF UsernameTaken THEN "Username already taken"
                           ELSE "Email already registered"

C6_Witness ==
  /\ last.op = "POST /api/users"
  /\ ~UsernameTaken /\ EmailRegistered
  /\ createUserErrors(last.reqBody) = {}
  /\ last.status = 400
  /\ last.body.error = "Email already registered"
  /\ Len(users) = 2

PublishMaxNow == 1
PublishMaxTracks == 2

UploadBodies ==
  {[userId |-> 1, title |-> Song, artist |-> Band, genre |-> Rock] @@ extra :
     extra \in {<<>>, [published |-> FALSE], [published |-> TRUE, likes |-> 2]}}

TrackPatches ==
  {[published |-> TRUE], [published |-> FALSE], [publishedAt |-> 1, createdAt |-> 1]}

NextPublish ==
  \/ /\ nextId.tracks <= PublishMaxTracks
     /\ \E body \in UploadBodies : PostTracks(body)
  \/ \E id \in KnownIds("tracks"), body \in TrackPatches : PatchTracks(id, body)
  \/ GetTracks([published |-> TRUE])
  \/ now < PublishMaxNow /\ Tick(1)

SpecPublish == Init /\ [][NextPublish]_vars

ListsPublished == last.op = "GET /api/tracks" /\ last.filters = [published |-> TRUE]

Before(id) == getTrack(tracks, id)
After(id) == getTrack(tracks', id)

\* C8 as stated: once publishedAt has a value, no later operation changes it.
C8_PublishedAtSetOnce ==
  [][\A id \in KnownIds("tracks") :
       (Before(id) # <<>> /\ Has(Before(id)[1], "publishedAt") /\ After(id) # <<>>) =>
         /\ Has(After(id)[1], "publishedAt")
         /\ After(id)[1].publishedAt = Before(id)[1].publishedAt]_vars

\* C8 (amended): a track's publishedAt is set on every transition from
\* unpublished to published, to the time of that transition (a track that is
\* published again gets a new publishedAt), and createTrack sets it exactly
\* when the track is created published; no other operation sets, changes or
\* clears it, an update that carries its own publishedAt included.
C8_PublishedAtFollowsPublishing ==
  [][\A id \in KnownIds("tracks") \cup {nextId.tracks} :
       After(id) # <<>> =>
         IF Before(id) = <<>>
         THEN Has(After(id)[1], "publishedAt") = After(id)[1].published
              /\ (After(id)[1].published => After(id)[1].publishedAt = now)
         ELSE IF ~Before(id)[1].published /\ After(id)[1].published
         THEN Has(After(id)[1], "publishedAt") /\ After(id)[1].publishedAt = now
         ELSE Keep(After(id)[1], {"publishedAt"}) = Keep(Before(id)[1], {"publishedAt"})
    ]_vars

C8_Witness ==
  /\ last.op = "PATCH /api/tracks/:id"
  /\ last.status = 200
  /\ Has(last.trackBefore[1], "publishedAt")
  /\ ~last.trackBefore[1].published
  /\ last.body.published
  /\ last.body.publishedAt > last.trackBefore[1].publishedAt

\* ------------------------------------------------------------------------
\* Listing: a catalogue of tracks with different owners, genres, moods,
\* tags and counters, read through every combination of filters
\* ------------------------------------------------------------------------
ListMaxTracks == 3

CatalogueBodies ==
  {[userId |-> 1, title |-> Song, artist |-> Band, genre |-> Rock, mood |-> Jazz,
    tags |-> <<Rock, Song>>, published |-> TRUE],
   [userId |-> 2, title |-> Band, artist |-> Band, genre |-> <<"R", "k">>,
    tags |-> <<Song>>]}

CounterPatches ==
  {[plays |-> 5, likes |-> 1, downloads |-> 2],
   [plays |-> 2, likes |-> 3, downloads |-> 2, published |-> FALSE]}

Optional(field, values) == {<<>>} \cup {field :> v : v \in values}

\* every combination of the filters other than the sort
SelectFilters ==
  {a @@ b @@ c @@ d @@ e @@ f :
     a \in Optional("userId", {1}), b \in Optional("genre", {Rock}),
     c \in Optional("mood", {<<"j", "z">>}), d \in Optional("tags", {<<Song>>}),
     e \in Optional("limit", {2}), f \in Optional("offset", {1})}

SortFilters == {<<>>, [sortBy |-> "plays", sortOrder |-> "asc"]}

SampleFilters ==
  {[published |-> TRUE], [published |-> FALSE, userId |-> 2],
   [sortBy |-> "plays", sortOrder |-> "desc"], [sortBy |-> "likes", sortOrder |-> "asc"]}

NextList ==
  \/ /\ nextId.tracks <= ListMaxTracks
     /\ \E body \in CatalogueBodies : PostTracks(body)
  \/ \E id \in KnownIds("tracks"), body \in CounterPatches : PatchTracks(id, body)
  \/ \E filters \in SampleFilters : GetTracks(filters)

SpecList == Init /\ [][NextList]_vars

\* C9: whatever the other filters, listTracks with published=true returns no
\* track whose published field is false, and with published=false none whose
\* published field is true.
C9_PublishedFilterExact ==
  /\ \A p \in BOOLEAN, f \in SelectFilters, g \in SortFilters :
       \A t \in Range(listTracks(tracks, [published |-> p] @@ f @@ g)) :
         t.published = p
  /\ (last.op = "GET /api/tracks" /\ Has(last.filters, "published")) =>
       \A t \in Range(last.body) : t.published = last.filters.published

C9_Witness ==
  /\ last.op = "GET /api/tracks"
  /\ last.filters = [published |-> TRUE]
  /\ Len(last.body) = 2
  /\ \E i \in 1..Len(tracks) : ~tracks[i].published

Ordered(s, field, order) ==
  \A i, j \in 1..Len(s) :
    i < j => IF order = "asc" THEN s[i][field] <= s[j][field]
             ELSE s[i][field] >= s[j][field]

\* C10: listTracks sorted by plays, likes or downloads returns a sequence
\* that is non-increasing in that counter with sortOrder desc and
\* non-decreasing with sortOrder asc.
C10_SortedByCounter ==
  /\ \A by \in {"plays", "likes", "downloads"}, order \in {"asc", "desc"} :
       \A p \in Optional("published", BOOLEAN), u \in Optional("userId", {1}),
          l \in Optional("limit", {2}), o \in Optional("offset", {1}) :
         Ordered(listTracks(tracks,
                            [sortBy |-> by, sortOrder |-> order] @@ p @@ u @@ l @@ o),
                 by, order)
  /\ (last.op = "GET /api/tracks" /\ Has(last.filters, "sortBy")
      /\ Has(last.filters, "sortOrder")) =>
       Ordered(last.body, last.filters.sortBy, last.filters.sortOrder)

C10_Witness ==
  /\ last.op = "GET /api/tracks"
  /\ last.filters = [sortBy |-> "plays", sortOrder |-> "desc"]
  /\ Len(last.body) = 3
  /\ last.body[1].plays > last.body[2].plays
  /\ last.body[2].plays > last.body[3].plays
  /\ last.body # tracks

\* ------------------------------------------------------------------------
\* Plays: an artist uploads, listeners play the tracks, days pass, the
\* artist's statistics are read
\* ------------------------------------------------------------------------
PlaysMaxNow == 32
PlaysMaxTracks == 1

HalfWindow == ThirtyDays \div 2 + 1

Listeners == 1..3

PlayBodies ==
  {[userId |-> u] : u \in Listeners} \cup {[duration |-> 30, completed |-> TRUE]}

NextPlays ==
  \/ /\ nextId.tracks <= PlaysMaxTracks
     /\ PostTracks([userId |-> 1, title |-> Song, artist |-> Band, genre |-> Rock,
                    published |-> TRUE])
  \/ \E id \in KnownIds("tracks"), body \in PlayBodies : PostPlay(id, body)
  \/ GetUsersStats(1)
  \/ now + HalfWindow <= PlaysMaxNow /\ Tick(HalfWindow)

SpecPlays == Init /\ [][NextPlays]_vars

\* the listeners who played this track within the last thirty days
RecentListenersOf(trackId) ==
  {plays[i].userId :
     i \in {j \in 1..Len(plays) : /\ plays[j].trackId = trackId
                                  /\ Has(plays[j], "userId")
                                  /\ plays[j].createdAt >= now - ThirtyDays}}

\* C5: once one track has three Play events by three distinct userIds within
\* the last 30 days, GET /api/users/:id/stats of the track's owner reports
\* monthlyListeners equal to 3.
C5_ThreeListenersReported ==
  (/\ last.op = "GET /api/users/:id/stats"
   /\ \E i \in 1..Len(tracks) :
        /\ tracks[i].userId = last.id
        /\ Cardinality(RecentListenersOf(tracks[i].id)) = 3) =>
    last.body.monthlyListeners = 3

\* ------------------------------------------------------------------------
\* Case transformation: bodies sent out and echoed back
\* ------------------------------------------------------------------------
CaseMaxKeys == 2
CaseMaxItems == 2

\* keys of letters and digits only
CaseKeys ==
  { <<"a">>, <<"a", "B">>, <<"B", "a">>, <<"a", "1", "B">>,
    ConstructorKey, HasOwnPropertyKey }

Leaves == {Null, Prim(1)}

ObjectsOver(values) ==
  { Obj(f) : f \in UNION { [ks -> values] :
                ks \in {k \in SUBSET CaseKeys : Cardinality(k) <= CaseMaxKeys} } }

ArraysOver(values) ==
  { Arr(t) : t \in UNION { [1..n -> values] : n \in 0..CaseMaxItems } }

Flat == Leaves \cup ObjectsOver(Leaves) \cup ArraysOver(Leaves)

Bodies ==
  Flat \cup { Obj([ks \in {k} |-> v]) : k \in CaseKeys, v \in Flat }
       \cup { Arr(<<v>>) : v \in Flat }

NextCase ==
  \/ wire.pc = "idle" /\ \E body \in Bodies : Outgoing(body)
  \/ Incoming

SpecCase == Init /\ [][NextCase]_vars

\* C11: for every nested structure of plain objects and arrays whose keys
\* are made of letters and digits, converting it to snake_case and back to
\* camelCase completes and gives a structure deep-equal to the original.
C11_RoundTrip ==
  /\ wire.pc = "out" => wire.snake # TypeError
  /\ wire.pc = "in" => wire.camel = wire.x

\* ------------------------------------------------------------------------
\* API client: one request at a time, against a server that answers anything
\* ------------------------------------------------------------------------
NoBody == [k \in {} |-> ""]

ErrorBodies ==
  { NotJson, NoBody,
    [message |-> "m"], [detail |-> "d"], [error |-> "e"],
    [non_field_errors |-> <<"n">>],
    [detail |-> "d", error |-> "e"],
    [message |-> "m", detail |-> "d", non_field_errors |-> <<"n">>] }

Responses ==
  { [status |-> st, body |-> NoBody] : st \in {200, 204} }
    \cup { [status |-> st, body |-> b] : st \in {400, 401, 500}, b \in ErrorBodies }

\* what the refresh endpoint can do: the fetch rejects, the answer is not
\* OK, or it is OK with a body that is no JSON or JSON with or without
\* a new access token and a rotated refresh token
RefreshAnswers ==
  { [kind |-> "throws"], [kind |-> "notOk"],
    [kind |-> "ok", data |-> NotJson],
    [kind |-> "ok", data |-> NoBody],
    [kind |-> "ok", data |-> [refresh |-> "r2"]],
    [kind |-> "ok", data |-> [access |-> "t2"]],
    [kind |-> "ok", data |-> [access |-> "t2", refresh |-> "r2"]] }

LoginResponses ==
  { [status |-> 401, body |-> [error |-> "e"]],
    [status |-> 200, body |-> [token |-> [access |-> "t1", refresh |-> "r1"],
                               user |-> [id |-> "u1"]]],
    [status |-> 200, body |-> [token |-> [access |-> "t1"],
                               user |-> [id |-> "u1"]]],
    [status |-> 200, body |-> [token |-> [refresh |-> "r1"]]] }

NextApi ==
  \/ \E kind \in {"json", "formData"} : ApiRequest(kind)
  \/ FetchRejects
  \/ \E response \in Responses : Answer(response)
  \/ \E answer \in RefreshAnswers : RefreshAnswer(answer)
  \/ \E response \in LoginResponses : Login(response)

SpecApi == Init /\ [][NextApi]_vars

\* C12: within one call at most one refresh request and at most two sends
\* of the original request are made, whatever the server answers; a 401
\* answer to the retry ends the call with an error, without another
\* refresh and without another send.
C12_OneRefreshOneRetry ==
  /\ [](call.pc # "idle" => call.refreshes <= 1 /\ call.sent <= 2)
  /\ [](call.pc = "refresh" => call.sent = 1)
  /\ []((call.pc = "done" /\ call.sent = 2 /\ Has(call, "final")
           /\ call.final.status = 401) =>
          (call.outcome = "threw" /\ call.refreshes = 1))
  /\ [][(call.pc = "fetch" /\ call.sent = 2 /\ call' # call) =>
          (call'.pc = "done" /\ call'.sent = 2 /\ call'.refreshes = 1)]_vars

C12_Witness ==
  /\ call.pc = "done"
  /\ call.sent = 2
  /\ call.refreshes = 1
  /\ call.outcome = "threw"
  /\ Has(call, "final") /\ call.final.status = 401

TokenKeys == {"accessToken", "refreshToken", "userId"}

\* C13: when the refresh after a 401 fails (no refresh token stored, the
\* refresh endpoint answers non-OK, its fetch throws, or its response has
\* no access token) every stored token is removed, the call throws and the
\* original request has been sent only once; when the refresh succeeds the
\* retry carries the access token just stored in its Authorization header.
C13_RefreshFailureClearsTokens ==
  /\ [][(Has(call', "failure") /\ ~Has(call, "failure")) =>
          /\ (DOMAIN store') \cap TokenKeys = {}
          /\ call'.pc = "done"
          /\ call'.outcome = "threw"
          /\ call'.sent = 1]_vars
  /\ [][(call.pc = "refresh" /\ call' # call /\ ~Has(call', "failure")) =>
          /\ call'.pc = "fetch"
          /\ call'.sent = 2
          /\ Has(store', "accessToken")
          /\ store'.accessToken = call'.access
          /\ Has(call'.headers, "Authorization")
          /\ call'.headers.Authorization = <<"Bearer ", store'.accessToken>>]_vars

\* a call made with a stored access token fails its refresh on a response
\* without access token: the tokens are gone
C13_Witness ==
  /\ call.pc = "done"
  /\ Has(call, "failure") /\ call.failure = "ok"
  /\ Has(call.headers, "Authorization")
  /\ (DOMAIN store) \cap TokenKeys = {}

\* the message the claim expects for a response that is not OK
firstPresentMessage(response) ==
  LET errorData == IF response.body = NotJson THEN NoBody ELSE response.body
  IN IF Has(errorData, "message") THEN <<errorData.message>>
     ELSE IF Has(errorData, "detail") THEN <<errorData.detail>>
     ELSE IF Has(errorData, "error") THEN <<errorData.error>>
     ELSE IF Has(errorData, "non_field_errors") THEN <<errorData.non_field_errors[1]>>
     ELSE statusLine(response)

\* C14: for every final response that is not 2xx the call throws an error
\* whose message is the first present of the body's message, detail, error
\* and first non_field_errors entry, and the status line only when none of
\* them is present.
C14_ErrorMessageFromBody ==
  (call.pc = "done" /\ Has(call, "final") /\ ~isOk(call.final)) =>
    /\ call.outcome = "threw"
    /\ call.error = firstPresentMessage(call.final)

\* ------------------------------------------------------------------------
\* Likes, follows, plays and downloads around one artist's tracks
\* ------------------------------------------------------------------------
SocialMaxTracks == 1

SocialUserIds == 1..2

SocialLikeBodies == {[userId |-> u] : u \in SocialUserIds} \cup {<<>>}

FollowBodies == {[followerId |-> u] : u \in SocialUserIds} \cup {<<>>}

NextSocial ==
  \/ /\ nextId.tracks <= SocialMaxTracks
     /\ PostTracks([userId |-> 1, title |-> Song, artist |-> Band, genre |-> Rock,
                    published |-> TRUE])
  \/ \E trackId \in 1..SocialMaxTracks, body \in SocialLikeBodies :
       PostLike(trackId, body)
  \/ \E trackId \in 1..SocialMaxTracks, body \in SocialLikeBodies :
       DeleteLike(trackId, body)
  \/ \E userId \in SocialUserIds, body \in FollowBodies : PostFollow(userId, body)
  \/ \E userId \in SocialUserIds, body \in FollowBodies : DeleteFollow(userId, body)
  \/ \E id \in SocialUserIds : GetUsersStats(id)

SpecSocial == Init /\ [][NextSocial]_vars

\* ------------------------------------------------------------------------
\* The cached statistics of an artist while the tracks are used
\* ------------------------------------------------------------------------
StatsMaxTracks == 1
StatsMaxPlays == 1
StatsMaxLikes == 1
StatsMaxFollows == 1

NextStats ==
  \/ /\ nextId.tracks <= StatsMaxTracks
     /\ PostTracks([userId |-> 1, title |-> Song, artist |-> Band, genre |-> Rock,
                    published |-> TRUE])
  \/ \E id \in 1..(nextId.tracks - 1) : DeleteTracks(id)
  \/ /\ nextId.likes <= StatsMaxLikes
     /\ \E trackId \in 1..(nextId.tracks - 1) : PostLike(trackId, [userId |-> 2])
  \/ \E trackId \in 1..(nextId.tracks - 1) : DeleteLike(trackId, [userId |-> 2])
  \/ /\ nextId.plays <= StatsMaxPlays
     /\ \E trackId \in 1..(nextId.tracks - 1) : PostPlay(trackId, [userId |-> 2])
  \/ \E trackId \in 1..(nextId.tracks - 1) : PostDownload(trackId, [userId |-> 2])
  \/ /\ nextId.follows <= StatsMaxFollows
     /\ PostFollow(1, [followerId |-> 2])
  \/ DeleteFollow(1, [followerId |-> 2])
  \/ \E id \in SocialUserIds : GetUsersStats(id)

SpecStats == Init /\ [][NextStats]_vars

StatsFields ==
  {"totalTracks", "totalPlays", "totalLikes", "totalDownloads", "totalFollowers",
   "totalFollowing", "monthlyListeners"}

\* C15: whatever storage operations changed a user's tracks, their counters
\* or the user's follow edges, getUserStats(userId) returns the seven totals
\* of a fresh recomputation from the current collections.
C15_UserStatsFresh ==
  \A userId \in SocialUserIds :
    Keep(getUserStats(userStats, userId, tracks, follows, plays, now), StatsFields)
      = Keep(computeUserStats(userId, tracks, follows, plays, now), StatsFields)

DeleteLikeOp == "DELETE /api/tracks/:trackId/like"

DeleteFollowOp == "DELETE /api/users/:userId/follow"

\* C17: a DELETE of a like (of a follow) for a pair without a record is
\* answered 404 and changes no collection, counter or cached stats; for a
\* pair with a record it is answered with success and afterwards the pair
\* is not liked (not followed) any more.
C17_DeleteMissingIsNotFound ==
  /\ [][(last' # last /\ last'.op = DeleteLikeOp /\ Has(last'.reqBody, "userId")) =>
          IF hasUserLikedTrack(likes, last'.reqBody.userId, last'.trackId)
          THEN /\ last'.status = 200
               /\ last'.body = [success |-> TRUE]
               /\ ~hasUserLikedTrack(likes', last'.reqBody.userId, last'.trackId)
          ELSE /\ last'.status = 404
               /\ UNCHANGED db]_vars
  /\ [][(last' # last /\ last'.op = DeleteFollowOp
           /\ Has(last'.reqBody, "followerId")) =>
          IF isFollowing(follows, last'.reqBody.followerId, last'.userId)
          THEN /\ last'.status = 200
               /\ last'.body = [success |-> TRUE]
               /\ ~isFollowing(follows', last'.reqBody.followerId, last'.userId)
          ELSE /\ last'.status = 404
               /\ UNCHANGED db]_vars

\* a follow of user 1 was asked to be deleted and was not there, while
\* another follow and a like exist
C17_Witness ==
  /\ last.op = DeleteFollowOp
  /\ Has(last.reqBody, "followerId")
  /\ ~last.followedBefore
  /\ last.status = 404
  /\ follows # <<>>
  /\ likes # <<>>

followRecords(fs, followerId, followingId) ==
  Len(SelectSeq(fs, LAMBDA f : isFollowOf(f, followerId, followingId)))

PostFollowOp == "POST /api/users/:userId/follow"

\* C18: follows are an idempotent set: creating a follow for an existing
\* pair returns the existing record and adds nothing, there is never more
\* than one record per pair, and the cached totalFollowers / totalFollowing
\* of every user named by a follow equal the number of records naming them.
C18_FollowsIdempotentSet ==
  /\ [](\A a \in SocialUserIds, b \in SocialUserIds :
          followRecords(follows, a, b) <= 1)
  /\ [](\A i \in 1..Len(follows) :
          /\ \E j \in 1..Len(userStats) :
               /\ userStats[j].userId = follows[i].followingId
               /\ userStats[j].totalFollowers
                    = Len(getFollowers(follows, follows[i].followingId))
          /\ \E j \in 1..Len(userStats) :
               /\ userStats[j].userId = follows[i].followerId
               /\ userStats[j].totalFollowing
                    = Len(getFollowing(follows, follows[i].followerId)))
  /\ [](\A j \in 1..Len(userStats) :
          /\ userStats[j].totalFollowers
               = Len(getFollowers(follows, userStats[j].userId))
          /\ userStats[j].totalFollowing
               = Len(getFollowing(follows, userStats[j].userId)))
  /\ [][(last' # last /\ last'.op = PostFollowOp
           /\ Has(last'.reqBody, "followerId")
           /\ isFollowing(follows, last'.reqBody.followerId, last'.userId)) =>
          /\ follows' = follows
          /\ last'.status = 201
          /\ last'.body \in Range(follows)
          /\ isFollowOf(last'.body, last'.reqBody.followerId, last'.userId)]_vars

\* an existing pair was followed again, after another pair had been
\* followed and unfollowed
C18_Witness ==
  /\ last.op = PostFollowOp
  /\ Has(last.reqBody, "followerId")
  /\ last.followedBefore
  /\ Len(follows) = 1
  /\ nextId.follows = 3
  /\ last.body \in Range(follows)

\* ------------------------------------------------------------------------
\* The search index after user and track mutations
\* ------------------------------------------------------------------------
IndexedMutations ==
  {"POST /api/users", "PATCH /api/users/:id", "POST /api/tracks",
   "PATCH /api/tracks/:id", "DELETE /api/tracks/:id"}

\* C16: after every successful user or track mutation the stored search
\* index is the projection of the current collections: the published tracks
\* and all users.
C16_SearchIndexFresh ==
  (last.op \in IndexedMutations /\ last.status \in {200, 201}) =>
    searchIndex = rebuildSearchIndex(tracks, users)

\* ------------------------------------------------------------------------
\* The player: listeners picking tracks, seeking, clearing
\* ------------------------------------------------------------------------
PlayerMaxTime == 2
PlayerMaxTracks == 3

PlayerTracks == 1..PlayerMaxTracks

NextPlayer ==
  \/ \E t \in PlayerTracks : HandlePlay(t)
  \/ OnClear
  \/ TogglePlay
  \/ \E time \in 0..PlayerMaxTime : UpdateTime(time)
  \/ \E time \in 0..PlayerMaxTime : HandleSeek(time)
  \/ HandleEnded
  \/ \E t \in PlayerTracks, hasLiked \in BOOLEAN : LikeStatus(t, hasLiked)
  \/ \E t \in PlayerTracks : LikeStatusFails(t)
  \/ Login([status |-> 200, body |-> [token |-> [access |-> "t1"],
                                      user |-> [id |-> "u1"]]])

SpecPlayer == Init /\ [][NextPlayer]_vars

\* C19 as stated: whenever the active track changes to a track with another
\* id, or to none, the position is 0 and isPlaying and isLiked are false
\* afterwards.
C19_TrackChangeResetsAll ==
  [][player'.active # player.active =>
       /\ player'.currentTime = 0
       /\ ~player'.isPlaying
       /\ ~player'.isLiked]_vars

\* C19: whenever the active track changes to a track with another id, or to
\* none, the position is 0 and isLiked is false afterwards; isPlaying is
\* false afterwards when the player was cleared and true when another track
\* was picked with its play button, which asks for autoplay.
C19_TrackChangeResets ==
  [][player'.active # player.active =>
       /\ player'.currentTime = 0
       /\ ~player'.isLiked
       /\ ~player'.autoPlay
       /\ player'.isPlaying = (player'.active # <<>>)]_vars

\* a second track was picked with its play button while the like status of
\* the first was still being fetched
C19_Witness ==
  /\ player.by = "handlePlay"
  /\ player.active = <<2>>
  /\ player.currentTime = 0
  /\ ~player.isLiked
  /\ player.isPlaying
  /\ 1 \in player.likeChecks
  /\ 2 \in player.likeChecks

\* ------------------------------------------------------------------------
\* Request bodies that pass and bodies that fail the schemas
\* ------------------------------------------------------------------------
ValidationMaxTracks == 1

\* what userSchema demands of the fields a partial body carries
userFieldErrors(body) ==
  (IF Has(body, "username")
      /\ (Len(body.username) < UsernameMin \/ Len(body.username) > UsernameMax)
   THEN {"username"} ELSE {})
  \cup (IF Has(body, "email") /\ ~isEmail(body.email) THEN {"email"} ELSE {})

ValidatedSignUps ==
  {[username |-> Ali, email |-> MailA, password |-> Secret],
   [username |-> Bob, email |-> MailB, password |-> Secret],
   [username |-> <<"a">>, email |-> MailB, password |-> Secret],
   [username |-> Bob, email |-> <<"x">>]}

ValidatedProfilePatches ==
  {[bio |-> Bob], [username |-> <<"a">>], [email |-> <<"x">>]}

ValidatedUploads ==
  {[userId |-> 1, title |-> Song, artist |-> Band, genre |-> Rock],
   [userId |-> 1, title |-> <<>>, artist |-> Band, genre |-> Rock],
   [title |-> Song]}

ValidatedTrackPatches ==
  {[title |-> Band], [title |-> <<>>], [artist |-> <<>>, published |-> TRUE]}

NextValidation ==
  \/ \E body \in ValidatedSignUps : PostUsers(body)
  \/ \E id \in KnownIds("users"), body \in ValidatedProfilePatches :
       PatchUsers(id, body)
  \/ /\ nextId.tracks <= ValidationMaxTracks
     /\ \E body \in ValidatedUploads : PostTracks(body)
  \/ \E id \in KnownIds("tracks"), body \in ValidatedTrackPatches :
       PatchTracks(id, body)

SpecValidation == Init /\ [][NextValidation]_vars

schemaErrors(op, body) ==
  CASE op = "POST /api/users" -> createUserErrors(body)
    [] op = "PATCH /api/users/:id" -> userFieldErrors(body)
    [] op = "POST /api/tracks" -> createTrackErrors(body)
    [] op = "PATCH /api/tracks/:id" -> updateTrackErrors(body)
    [] OTHER -> {}

\* C20: a create or update request for a user or a track whose body fails
\* the matching schema is answered 400 with the validation errors and
\* changes no stored collection.
C20_InvalidBodyRejected ==
  [][(last' # last /\ Has(last', "reqBody")
        /\ schemaErrors(last'.op, last'.reqBody) # {}) =>
       /\ last'.status = 400
       /\ last'.body = [error |-> schemaErrors(last'.op, last'.reqBody)]
       /\ UNCHANGED db]_vars

\* ------------------------------------------------------------------------
\* The session of the local API: a username and password looked up among
\* the stored users
\* ------------------------------------------------------------------------
InvalidLogin == "Invalid username or password"

\* userData.password, undefined when the answer carries none
passwordOf(userData) ==
  IF Has(userData, "password") THEN <<userData.password>> ELSE <<>>

\* AuthProvider.login(username, password) of the local session, from the
\* answer of GET /api/users/username/:username on; auth.login and auth.threw
\* remember the call and how it ended
LocalLogin(password) ==
  /\ last.op = "GET /api/users/username/:username"
  /\ LET attempt == [username |-> last.username, password |-> password]
         userData == last.body
     IN IF ~isOk(last) \/ passwordOf(userData) # <<password>>
        THEN /\ auth' = Merge(auth, [login |-> attempt, threw |-> <<InvalidLogin>>])
             /\ UNCHANGED store
        ELSE /\ auth' = [user |-> <<Without(userData, "password")>>,
                         isAuthenticated |-> TRUE,
                         login |-> attempt, threw |-> <<>>]
             /\ store' = Merge(store,
                  [indiewave_user |-> Without(userData, "password")])
  /\ player' = render(player, auth.user, auth'.user, player)
  /\ UNCHANGED <<server, wire, call>>

\* AuthProvider.logout of the local session
LocalLogout ==
  /\ auth' = SignedOut
  /\ store' = Without(store, "indiewave_user")
  /\ player' = render(player, auth.user, auth'.user, player)
  /\ UNCHANGED <<server, wire, call>>

LocalNames == {Ali, Bob}

LocalPasswords == {Secret, Ali, Bob}

LocalSignUps ==
  {[username |-> Ali, email |-> MailA, password |-> Secret],
   [username |-> Bob, email |-> MailB, password |-> Ali]}

NextLocalAuth ==
  \/ \E body \in LocalSignUps : PostUsers(body)
  \/ \E username \in LocalNames : GetUsersUsername(username)
  \/ \E password \in LocalPasswords : LocalLogin(password)
  \/ LocalLogout

SpecLocalAuth == Init /\ [][NextLocalAuth]_vars

\* the stored users that carry the username and the password of a login
matchingUsers(attempt) ==
  {i \in 1..Len(users) : /\ users[i].username = attempt.username
                         /\ users[i].password = attempt.password}

\* C21: a login of the local session succeeds, setting the logged-in user
\* and persisting it without the password, exactly when a stored user has
\* the username and that user's stored password equals the given one, and
\* throws "Invalid username or password" otherwise.
C21_LoginChecksPassword ==
  Has(auth, "login") =>
    IF matchingUsers(auth.login) # {}
    THEN /\ auth.threw = <<>>
         /\ auth.user # <<>>
         /\ auth.user[1].username = auth.login.username
         /\ ~Has(auth.user[1], "password")
         /\ Has(store, "indiewave_user")
         /\ store.indiewave_user = auth.user[1]
    ELSE auth.threw = <<InvalidLogin>>

\* ------------------------------------------------------------------------
\* The collection files as the file system holds them.  Server processes
\* started in the same working directory share db-data; inside one process
\* a storage method runs from its readFileSync to its writeFileSync without
\* giving way, between processes every file operation is a step of its own.
\* ------------------------------------------------------------------------
fileOf(coll) ==
  CASE coll = "users" -> users
    [] coll = "tracks" -> tracks
    [] coll = "likes" -> likes
    [] coll = "downloads" -> downloads
    [] coll = "plays" -> plays
    [] coll = "follows" -> follows
    [] coll = "userStats" -> userStats
    [] coll = "trackStats" -> trackStats
    [] coll = "searchIndex" -> searchIndex

\* readFile without its catch: the records the file held before it was
\* damaged (not what the code does)
readFileHeld(coll) == fileOf(coll)

\* readFile: the parsed file, or the empty default when reading or parsing
\* fails
readFile(coll) ==
  IF coll \in unreadable
  THEN IF coll = "searchIndex" THEN [tracks |-> <<>>, users |-> <<>>] ELSE <<>>
  ELSE fileOf(coll)

\* writeFile with records of the file kept that the data lacks (not what
\* the code does)
writeFileKeeping(held, data) ==
  data \o SelectSeq(held, LAMBDA r : \A i \in 1..Len(data) : data[i].id # r.id)

\* writeFile: the data replaces whatever the file held
writeFile(held, data) == data

AtRest(w) == writers[w].pc \in {"idle", "done"}

\* createLike in process w, up to its readFileSync of likes.json
CreateLikeReadsLikes(w, userId, trackId) ==
  /\ AtRest(w)
  /\ LET ls == readFile("likes")
         existing == existingLike(ls, userId, trackId)
         method == [op |-> "createLike", userId |-> userId, trackId |-> trackId,
                    likesRead |-> ls]
         like == [id |-> nextId.likes, userId |-> userId, trackId |-> trackId,
                  createdAt |-> now]
     IN IF existing > 0
        THEN /\ writers' = [writers EXCEPT ![w] =
                  method @@ [pc |-> "done", result |-> ls[existing]]]
             /\ UNCHANGED nextId
        ELSE /\ writers' = [writers EXCEPT ![w] =
                  method @@ [pc |-> "writeLikes", like |-> like]]
             /\ nextId' = Fresh("likes")
  /\ UNCHANGED <<db, now, last, prev, unreadable, client>>

\* likes.push(like); writeFile(likes.json)
CreateLikeWritesLikes(w) ==
  /\ writers[w].pc = "writeLikes"
  /\ likes' = writeFile(likes, Append(writers[w].likesRead, writers[w].like))
  /\ unreadable' = unreadable \ {"likes"}
  /\ writers' = [writers EXCEPT ![w].pc = "readTracks"]
  /\ UNCHANGED <<users, tracks, downloads, plays, follows, userStats,
                 trackStats, searchIndex, nextId, now, last, prev, client>>

\* incrementTrackLikes, up to its readFileSync of tracks.json
IncrementTrackLikesReads(w) ==
  /\ writers[w].pc = "readTracks"
  /\ LET ts == readFile("tracks")
         index == FindIndex(ts, LAMBDA t : t.id = writers[w].trackId)
     IN writers' = [writers EXCEPT ![w] =
          IF index = 0
          THEN [pc |-> "done", result |-> @.like, tracksRead |-> ts] @@ @
          ELSE [pc |-> "writeTracks", tracksRead |-> ts] @@ @]
  /\ UNCHANGED <<db, nextId, now, last, prev, unreadable, client>>

\* tracks[index].likes += 1; writeFile(tracks.json); createLike returns
IncrementTrackLikesWrites(w) ==
  /\ writers[w].pc = "writeTracks"
  /\ tracks' = writeFile(tracks,
       incrementTrackLikes(writers[w].tracksRead, writers[w].trackId, now))
  /\ unreadable' = unreadable \ {"tracks"}
  /\ writers' = [writers EXCEPT ![w] = [pc |-> "done", result |-> @.like] @@ @]
  /\ UNCHANGED <<users, likes, downloads, plays, follows, userStats,
                 trackStats, searchIndex, nextId, now, last, prev, client>>

RaceMaxTracks == 1
RaceMaxLikes == 3
RaceUserIds == {1, 2}

RaceUploads ==
  {[userId |-> 1, title |-> Song, artist |-> Band, genre |-> Rock]}

NextRace ==
  \/ /\ \A w \in Writers : AtRest(w)
     /\ nextId.tracks <= RaceMaxTracks
     /\ \E body \in RaceUploads : PostTracks(body)
  \/ /\ nextId.likes <= RaceMaxLikes
     /\ \E w \in Writers, userId \in RaceUserIds, trackId \in KnownIds("tracks") \ {0} :
          CreateLikeReadsLikes(w, userId, trackId)
  \/ \E w \in Writers : CreateLikeWritesLikes(w)
  \/ \E w \in Writers : IncrementTrackLikesReads(w)
  \/ \E w \in Writers : IncrementTrackLikesWrites(w)

SpecRace == Init /\ [][NextRace]_vars

\* process w has returned from a createLike that made a new like
Created(w) == writers[w].pc = "done" /\ Has(writers[w], "like")

\* the createLike of a and the createLike of b each read likes.json before
\* the other wrote it
LikesInterleaved(a, b) ==
  /\ Created(a) /\ Created(b)
  /\ writers[a].like \notin Range(writers[b].likesRead)
  /\ writers[b].like \notin Range(writers[a].likesRead)

likesRead(w) ==
  getTrack(writers[w].tracksRead, writers[w].trackId)[1].likes

\* the counter increments of a and of b, for one track, each read
\* tracks.json before the other wrote it
CountersInterleaved(a, b) ==
  /\ Created(a) /\ Created(b)
  /\ writers[a].trackId = writers[b].trackId
  /\ getTrack(writers[a].tracksRead, writers[a].trackId) # <<>>
  /\ getTrack(writers[b].tracksRead, writers[b].trackId) # <<>>
  /\ likesRead(a) = likesRead(b)

\* C22: nothing locks the files.  When two createLike calls interleave
\* between reading and writing likes.json, the file keeps the like of one of
\* them only; when their two counter increments interleave between reading
\* and writing tracks.json, the counter of the track has grown by one, not
\* by two.
C22_InterleavedUpdateLost ==
  \A a, b \in Writers :
    a # b =>
      /\ LikesInterleaved(a, b) =>
           ~(writers[a].like \in Range(likes) /\ writers[b].like \in Range(likes))
      /\ CountersInterleaved(a, b) =>
           getTrack(tracks, writers[a].trackId)[1].likes = likesRead(a) + 1

\* two users liked one track from two processes; both calls returned their
\* like, the file holds one like and the counter of the track is 1
C22_Witness ==
  /\ LikesInterleaved(1, 2)
  /\ CountersInterleaved(1, 2)
  /\ writers[1].userId # writers[2].userId
  /\ writers[1].result = writers[1].like
  /\ writers[2].result = writers[2].like
  /\ Len(likes) = 1
  /\ getTrack(tracks, writers[1].trackId)[1].likes = 1

\* ------------------------------------------------------------------------
\* Storage methods on files that cannot be read
\* ------------------------------------------------------------------------
\* the file of a collection is deleted, or its text stops being JSON
DamageFile(coll) ==
  /\ coll \notin unreadable
  /\ unreadable' = unreadable \cup {coll}
  /\ UNCHANGED <<db, nextId, now, last, prev, writers, client>>

\* what a storage method was called with and what it returned
Returns(r) ==
  /\ last' = r
  /\ prev' = NoRequest

\* storage.listUsers()
ListUsers ==
  /\ Returns([op |-> "listUsers", unreadableBefore |-> unreadable,
              result |-> listUsers(readFile("users"), DefaultLimit, 0)])
  /\ UNCHANGED <<db, nextId, now, disk, client>>

\* storage.getUserByUsername(username)
GetUserByUsername(username) ==
  /\ Returns([op |-> "getUserByUsername", unreadableBefore |-> unreadable,
              result |-> getUserByUsername(readFile("users"), username)])
  /\ UNCHANGED <<db, nextId, now, disk, client>>

\* storage.createUser(createUser)
CreateUser(createUser) ==
  LET user == newUser(createUser, nextId.users, now)
  IN /\ users' = writeFile(users, Append(readFile("users"), user))
     /\ userStats' = writeFile(userStats,
          updateUserStats(readFile("userStats"), user.id, readFile("tracks"),
                          readFile("follows"), readFile("plays"), now))
     /\ unreadable' = unreadable \ {"users", "userStats"}
     /\ nextId' = Fresh("users")
     /\ Returns([op |-> "createUser", unreadableBefore |-> unreadable,
                 usersBefore |-> users, result |-> user])
     /\ UNCHANGED <<tracks, likes, downloads, plays, follows, trackStats,
                    searchIndex, now, writers, client>>

DamageMaxUsers == 3

DamagedFiles == {"users", "userStats"}

NextDamage ==
  \/ /\ nextId.users <= DamageMaxUsers
     /\ \E createUser \in LocalSignUps : CreateUser(createUser)
  \/ ListUsers
  \/ \E username \in LocalNames : GetUserByUsername(username)
  \/ \E coll \in DamagedFiles : DamageFile(coll)

SpecDamage == Init /\ [][NextDamage]_vars

\* C23: when users.json cannot be read, the storage raises no error and
\* behaves as if the collection were empty: listUsers returns no user,
\* getUserByUsername finds none, and createUser leaves a file that holds the
\* new user only, whatever the file held before.
C23_UnreadableFileIsEmpty ==
  (Has(last, "unreadableBefore") /\ "users" \in last.unreadableBefore) =>
    /\ Has(last, "result")
    /\ last.op \in {"listUsers", "getUserByUsername"} => last.result = <<>>
    /\ last.op = "createUser" =>
         users = <<last.result>>

\* a user was created while users.json, holding a user, could not be read:
\* the file now holds the new user only
C23_Witness ==
  /\ last.op = "createUser"
  /\ "users" \in last.unreadableBefore
  /\ Len(last.usersBefore) >= 1
  /\ users = <<last.result>>
  /\ last.usersBefore[1] \notin Range(users)

\* ------------------------------------------------------------------------
\* The audio element and isPlaying
\* ------------------------------------------------------------------------
AudioTracks == {1, 2}

NextAudio ==
  \/ \E t \in AudioTracks : HandlePlay(t)
  \/ OnClear
  \/ TogglePlay
  \/ HandleEnded
  \/ PlayFulfilled
  \/ PlaybackError
  \/ \E t \in AudioTracks, hasLiked \in BOOLEAN : LikeStatus(t, hasLiked)
  \/ Login([status |-> 200, body |-> [token |-> [access |-> "t1"],
                                      user |-> [id |-> "u1"]]])

SpecAudio == Init /\ [][NextAudio]_vars

\* C24: once the effects of a player event have run, the audio element
\* holds the active track; when isPlaying is true play() was the last call
\* made on the element for that track, and when isPlaying is false pause()
\* was.
C24_AudioFollowsIsPlaying ==
  player.active # <<>> =>
    /\ player.audio.src = player.active
    /\ player.isPlaying => player.audio.called = "play"
    /\ ~player.isPlaying => player.audio.called = "pause"

\* ------------------------------------------------------------------------
\* The session of the remote API: login and logout
\* ------------------------------------------------------------------------
\* the finally block of logout, with the userId left behind (not what the
\* code does)
removeSessionItemsButUserId(items) ==
  Without(Without(items, "accessToken"), "refreshToken")

\* the finally block of logout: the three removeItem calls
removeSessionItems(items) ==
  Without(Without(Without(items, "accessToken"), "refreshToken"), "userId")

\* the finally block of AuthProvider.logout; auth.logout and auth.userBefore
\* remember how the call ended and who was logged in
LogoutEnds(outcome) ==
  /\ auth' = [user |-> <<>>, isAuthenticated |-> FALSE,
              logout |-> outcome, userBefore |-> auth.user]
  /\ store' = removeSessionItems(store)
  /\ player' = render(player, auth.user, auth'.user, player)
  /\ UNCHANGED <<server, wire, call>>

\* AuthProvider.logout, up to its fetch of the logout endpoint; without a
\* refresh token there is no fetch and the call ends at once
Logout ==
  /\ ~(Has(auth, "logout") /\ auth.logout = "sent")
  /\ IF Has(store, "refreshToken")
     THEN /\ auth' = Merge(auth, [logout |-> "sent"])
          /\ UNCHANGED <<server, wire, store, call, player>>
     ELSE LogoutEnds("skipped")

\* the fetch of the logout endpoint is answered, with whatever status, or
\* rejects
LogoutSettles(outcome) ==
  /\ Has(auth, "logout") /\ auth.logout = "sent"
  /\ LogoutEnds(outcome)

LogoutOutcomes == {"ok", "error", "rejected"}

NextSession ==
  \/ \E response \in LoginResponses : Login(response)
  \/ Logout
  \/ \E outcome \in LogoutOutcomes : LogoutSettles(outcome)
  \/ \E kind \in {"json", "formData"} : ApiRequest(kind)
  \/ \E response \in Responses : Answer(response)
  \/ \E answer \in RefreshAnswers : RefreshAnswer(answer)

SpecSession == Init /\ [][NextSession]_vars

LoggedOut ==
  /\ auth.user = <<>>
  /\ ~auth.isAuthenticated
  /\ ~Has(store, "accessToken")
  /\ ~Has(store, "refreshToken")
  /\ ~Has(store, "userId")

LogoutEnded == Has(auth, "logout") /\ auth.logout # "sent"

\* C25: a logout ends logged out whatever became of its request: answered
\* well, answered with an error, rejected, or never sent for want of a
\* refresh token.  At its end the user is null, isAuthenticated is false and
\* accessToken, refreshToken and userId are gone from localStorage.
C25_LogoutEndsLoggedOut ==
  [][(auth' # auth /\ LogoutEnded') => LoggedOut']_vars

\* a logout whose request was rejected ended, for a user who was logged in
C25_Witness ==
  /\ LogoutEnded
  /\ auth.logout = "rejected"
  /\ auth.userBefore # <<>>
  /\ LoggedOut

\* login throws: the answer is not OK, or it is OK and names no user id
loginThrows(response) ==
  \/ ~isOk(response)
  \/ response.body = NotJson
  \/ ~(Has(response.body, "user") /\ Has(response.body.user, "id"))

\* C28: a login that throws changes no authentication state: accessToken,
\* refreshToken and userId in localStorage, the user and isAuthenticated
\* are what they were before the call.
C28_FailedLoginChangesNothing ==
  [][\A response \in LoginResponses :
       (loginThrows(response) /\ Login(response)) =>
         (store' = store /\ auth' = auth)]_vars

\* ------------------------------------------------------------------------
\* Published tracks and their publishedAt
\* ------------------------------------------------------------------------
\* C26: every stored track that is published has a publishedAt, after any
\* sequence of track creations and updates: publishing, unpublishing,
\* publishing again, and updates that carry a publishedAt of their own.
C26_PublishedHasPublishedAt ==
  \A i \in 1..Len(tracks) :
    tracks[i].published => Has(tracks[i], "publishedAt")

\* a track that was published and unpublished before has just been
\* published again
C26_Witness ==
  /\ last.op = "PATCH /api/tracks/:id"
  /\ last.status = 200
  /\ ~last.trackBefore[1].published
  /\ Has(last.trackBefore[1], "publishedAt")
  /\ last.body.published
  /\ Has(last.body, "publishedAt")
  /\ last.body \in Range(tracks)

\* ------------------------------------------------------------------------
\* The counters of a track and the event records
\* ------------------------------------------------------------------------
CountersMaxTracks == 1
CountersMaxPlays == 1

EventPatches == {[title |-> Band], [likes |-> 2]}

NextCounters ==
  \/ /\ nextId.tracks <= CountersMaxTracks
     /\ PostTracks([userId |-> 1, title |-> Song, artist |-> Band, genre |-> Rock,
                    published |-> TRUE])
  \/ \E id \in KnownIds("tracks") \ {0}, body \in EventPatches :
       PatchTracks(id, body)
  \/ \E id \in KnownIds("tracks") \ {0}, body \in LikeBodies : PostLike(id, body)
  \/ \E id \in KnownIds("tracks") \ {0}, body \in LikeBodies : DeleteLike(id, body)
  \/ /\ nextId.plays <= CountersMaxPlays
     /\ \E id \in KnownIds("tracks") \ {0} : PostPlay(id, [userId |-> 2])
  \/ \E id \in KnownIds("tracks") \ {0} : PostDownload(id, [userId |-> 2])

SpecCounters == Init /\ [][NextCounters]_vars

eventsOf(events, trackId) ==
  Cardinality({i \in 1..Len(events) : events[i].trackId = trackId})

\* C27: after any REST requests, every stored track has likes equal to the
\* number of like records of the track, plays equal to the number of its
\* play records and downloads equal to the number of its download records,
\* none of them negative.
C27_CountersMatchEvents ==
  \A i \in 1..Len(tracks) :
    /\ tracks[i].likes = eventsOf(likes, tracks[i].id)
    /\ tracks[i].plays = eventsOf(plays, tracks[i].id)
    /\ tracks[i].downloads = eventsOf(downloads, tracks[i].id)
    /\ tracks[i].likes >= 0 /\ tracks[i].plays >= 0 /\ tracks[i].downloads >= 0

\* ------------------------------------------------------------------------
\* The like button of the player bar
\* ------------------------------------------------------------------------
likeOp(wasLiked) ==
  IF wasLiked THEN "DELETE /api/tracks/:trackId/like"
  ELSE "POST /api/tracks/:trackId/like"

\* PlayerBar.handleLike, up to its fetch: the optimistic update and the
\* request, which is POST or DELETE after what isLiked was.  player.liking
\* is the call under way (isLiking), player.likedTrack the track of the
\* latest call.
HandleLike ==
  /\ player.active # <<>>
  /\ auth.isAuthenticated /\ auth.user # <<>>
  /\ ~Has(player, "liking")
  /\ player' = Merge(player,
       [isLiked |-> ~player.isLiked, by |-> "handleLike",
        likedTrack |-> player.active[1],
        liking |-> [trackId |-> player.active[1], wasLiked |-> player.isLiked]])
  /\ last' = [op |-> likeOp(player.isLiked), trackId |-> player.active[1],
              reqBody |-> [userId |-> auth.user[1].id]]
  /\ UNCHANGED <<db, nextId, now, prev, disk, wire, store, auth, call>>

\* the request of handleLike reaches the router
ServeLike ==
  /\ Has(player, "liking")
  /\ ~Has(last, "status")
  /\ IF player.liking.wasLiked
     THEN DeleteLike(last.trackId, last.reqBody)
     ELSE PostLike(last.trackId, last.reqBody)

\* handleLike after its fetch: a response that is not OK, or no response,
\* puts isLiked back to what it was when the button was pressed
LikeSettles(ok) ==
  /\ Has(player, "liking")
  /\ player' = Merge(Without(player, "liking"),
       [by |-> "likeSettles"]
       @@ (IF ok THEN [k \in {} |-> FALSE]
           ELSE [isLiked |-> player.liking.wasLiked]))
  /\ UNCHANGED <<server, wire, store, auth, call>>

\* the response to the request of handleLike arrives
LikeAnswered ==
  /\ Has(last, "status")
  /\ LikeSettles(isOk(last))

\* the fetch of handleLike rejects
LikeRejected == LikeSettles(FALSE)

\* the like-status request of a track is answered by the router
LikeStatusAnswered(trackId) ==
  /\ auth.user # <<>>
  /\ LikeStatus(trackId, hasUserLikedTrack(likes, auth.user[1].id, trackId))

LikedTracks == {1, 2}

NextLiked ==
  \/ Login([status |-> 200, body |-> [token |-> [access |-> "t1"],
                                      user |-> [id |-> "u1"]]])
  \/ \E t \in LikedTracks : HandlePlay(t)
  \/ HandleLike
  \/ ServeLike
  \/ LikeAnswered
  \/ LikeRejected
  \/ \E t \in LikedTracks : LikeStatusAnswered(t)

SpecLiked == Init /\ [][NextLiked]_vars

\* no like-status request and no like request is unanswered
NoneInFlight == player.likeChecks = {} /\ ~Has(player, "liking")

\* C29: isLiked belongs to the active track.  Once every request in flight
\* has been answered, in whatever order, isLiked is the like status the
\* server holds for the active track, also when the requests were made for
\* the track that was active before (the latest press of the like button,
\* if any, was for another track than the active one).
C29_IsLikedOfActiveTrack ==
  (/\ player.active # <<>>
   /\ auth.user # <<>>
   /\ NoneInFlight
   /\ Has(player, "likedTrack") => player.likedTrack # player.active[1]) =>
    player.isLiked = hasUserLikedTrack(likes, auth.user[1].id, player.active[1])

\* ------------------------------------------------------------------------
\* Search and the tracks that are drafts or gone
\* ------------------------------------------------------------------------
SearchMaxTracks == 2
SearchMaxPlays == 1

SearchUploads ==
  {[userId |-> 1, title |-> Song, artist |-> Band, genre |-> Rock] @@ extra :
     extra \in {<<>>, [published |-> TRUE]}}

SearchPatches == {[published |-> TRUE], [published |-> FALSE]}

SearchedFor == {[q |-> Song], [q |-> Ali, type |-> "users"]}

NextSearch ==
  \/ PostUsers([username |-> Ali, email |-> MailA, password |-> Secret])
  \/ /\ nextId.tracks <= SearchMaxTracks
     /\ \E body \in SearchUploads : PostTracks(body)
  \/ \E id \in KnownIds("tracks") \ {0}, body \in SearchPatches :
       PatchTracks(id, body)
  \/ \E id \in KnownIds("tracks") \ {0} : DeleteTracks(id)
  \/ /\ nextId.plays <= SearchMaxPlays
     /\ \E id \in KnownIds("tracks") \ {0} : PostPlay(id, [userId |-> 1])
  \/ \E query \in SearchedFor : GetSearch(query)

SpecSearch == Init /\ [][NextSearch]_vars

\* C30: a search returns only tracks that are stored and published when it
\* is answered, and only users that are stored then, whatever track
\* creations, updates, deletions and counter operations came before.
C30_SearchHidesDraftsAndDeleted ==
  [][(last' # last /\ last'.op = "GET /api/search" /\ last'.status = 200) =>
       /\ \A i \in 1..Len(last'.body.tracks) :
            /\ last'.body.tracks[i] \in Range(tracks')
            /\ last'.body.tracks[i].published
       /\ \A i \in 1..Len(last'.body.users) :
            last'.body.users[i] \in Range(users')]_vars

\* a search found a published track while a track that matches the query
\* too, published once and a draft since, is stored and was left out
C30_Witness ==
  /\ last.op = "GET /api/search"
  /\ last.status = 200
  /\ Len(last.body.tracks) = 1
  /\ last.body.tracks[1] \in Range(tracks)
  /\ \E i \in 1..Len(tracks) :
       /\ ~tracks[i].published
       /\ Has(tracks[i], "publishedAt")
       /\ Includes(trackSearchText(indexTrack(tracks[i])), Trim(ToLowerCase(last.query.q)))
       /\ tracks[i] \notin Range(last.body.tracks)

====
